---- MODULE Spec2Model ----
(***************************************************************************)
(* Model of the Spaces session engine (src/js/spacesService.js, the live   *)
(* definition of spacesService at lines 889-1783) and of the listeners    *)
(* and command handlers of src/js/background.js that drive it.             *)
(*                                                                         *)
(* JavaScript runs each handler to its next suspension point without       *)
(* preemption, so every action below is one handler run or one             *)
(* continuation (a timer firing, a chrome.* reply, a gateway reply).       *)
(* Session objects are shared by reference between the registry and the    *)
(* closures of pending continuations, so they live in a heap and the       *)
(* registry is a sequence of object references.                            *)
(***************************************************************************)
EXTENDS Integers, Sequences, FiniteSets, TLC

(***************************************************************************)
(* Bounds of the model.                                                    *)
(***************************************************************************)
MaxWin == 2
MaxObj == 4
MaxId == 2
MaxTasks == 3
MaxOps == 1
MaxCreates == 2
MaxOver == 2
MaxPieces == 6
MaxGets == 1
MaxHistQ == 1
MaxTabs == 2
MaxNotes == 3

WinIds == 1..MaxWin
Oids == 1..MaxObj
Ids == 1..MaxId
TabIds == 1..(MaxWin * MaxTabs)

(***************************************************************************)
(* URLs are sequences of character codes.                                  *)
(***************************************************************************)
UrlA == <<97>>
UrlB == <<98>>
Urls == {UrlA, UrlB}
NoUrl == <<>>

Names == {"", "n1", "n2"}

\* chrome.runtime.id, a value of the installation: "xid"
RuntimeId == <<120, 105, 100>>
\* 'chrome:// newtab/'
NewTabMarker ==
    <<99, 104, 114, 111, 109, 101, 58, 47, 47, 32, 110, 101, 119, 116, 97, 98, 47>>
\* 'suspended.html'
SuspendedMarker ==
    <<115, 117, 115, 112, 101, 110, 100, 101, 100, 46, 104, 116, 109, 108>>
\* 'uri='
UriMarker == <<117, 114, 105, 61>>
HashChar == <<35>>
QueryChar == <<63>>

(***************************************************************************)
(* String.prototype.indexOf on character sequences, 0-based, -1 if absent. *)
(***************************************************************************)
IndexOf(s, sub) ==
    LET First(hits) == IF hits = {} THEN -1
                       ELSE (CHOOSE i \in hits : \A j \in hits : i <= j) - 1
    IN  First({i \in 1..(Len(s) - Len(sub) + 1) :
                  SubSeq(s, i, i + Len(sub) - 1) = sub})

\* s.substring(from, to) with 0-based from and exclusive to
Substring(s, from, to) == SubSeq(s, from + 1, to)

CleanUrl(url) ==
    LET \* everything after the first 'uri='
        Unsuspend(u, suspended, uri) ==
            IF suspended > 0 /\ uri > 0 THEN Substring(u, uri + 4, Len(u)) ELSE u
        \* everything before the first occurrence of the character
        CutAt(u, at) == IF at > 0 THEN Substring(u, 0, at) ELSE u
        CutHash(u) == CutAt(u, IndexOf(u, HashChar))
        CutQuery(u) == CutAt(u, IndexOf(u, QueryChar))
    IN  IF url = NoUrl THEN NoUrl
        ELSE IF IndexOf(url, RuntimeId) >= 0 THEN NoUrl
        ELSE IF IndexOf(url, NewTabMarker) >= 0 THEN NoUrl
        ELSE CutQuery(CutHash(Unsuspend(url, IndexOf(url, SuspendedMarker),
                                        IndexOf(url, UriMarker))))

(***************************************************************************)
(* 32-bit integers.  The model checker's integers are 32 bits wide, so a   *)
(* 32-bit value is kept as two 16-bit limbs: [hi, lo] stands for           *)
(* hi * 65536 + lo.  A limb pair with hi >= 32768 read as a signed int32   *)
(* is negative.                                                            *)
(***************************************************************************)
Limb == 65536
SignLimb == 32768

Zero32 == [hi |-> 0, lo |-> 0]

Add32(a, b) ==
    LET lo == a.lo + b.lo
    IN  [hi |-> (a.hi + b.hi + lo \div Limb) % Limb, lo |-> lo % Limb]

Sub32(a, b) ==
    LET lo == a.lo - b.lo
        borrow == IF lo < 0 THEN 1 ELSE 0
    IN  [hi |-> (a.hi - b.hi - borrow) % Limb, lo |-> lo % Limb]

\* x << 5
Shl5(a) ==
    LET lo == a.lo * 32
    IN  [hi |-> (a.hi * 32 + lo \div Limb) % Limb, lo |-> lo % Limb]

IsNegative32(a) == a.hi >= SignLimb

\* Math.abs of the int32 a: the magnitude, which for -2^31 is 2^31
Abs32(a) == IF IsNegative32(a) THEN Sub32(Zero32, a) ELSE a

RECURSIVE ConcatClean(_)
ConcatClean(tabs) ==
    IF tabs = <<>> THEN <<>>
    ELSE CleanUrl(Head(tabs)) \o ConcatClean(Tail(tabs))

\* hash = (hash << 5) - hash + chr; hash |= 0
RECURSIVE HashLoop(_, _, _)
HashLoop(text, i, hash) ==
    LET \* the hash is a value before the loop goes on
        Continue(h) == IF h.hi >= 0 THEN HashLoop(text, i + 1, h) ELSE h
    IN  IF i > Len(text) THEN hash
        ELSE Continue(Add32(Sub32(Shl5(hash), hash), [hi |-> 0, lo |-> text[i]]))

\* tabs: a sequence of URLs (the only tab field the service reads)
GenerateSessionHash(tabs) ==
    LET Hash(text) == IF Len(text) = 0 THEN Zero32
                      ELSE Abs32(HashLoop(text, 1, Zero32))
    IN  Hash(ConcatClean(tabs))

(***************************************************************************)
(* State.                                                                  *)
(***************************************************************************)
VARIABLES
    winState,           \* host: "none" | "open" | "closing" | "gone" per window id
    winTabs,            \* host: the tabs [id, url] of each open window, in order
    heap,               \* session objects by reference
    sessions,           \* spacesService.sessions: sequence of references
    closedWindowIds,    \* spacesService.closedWindowIds
    sessionUpdateTimers,\* pending debounce timeouts per window id
    pendingGets,        \* chrome.windows.get calls of handleWindowEvent in flight
    historyQueue,       \* spacesService.historyQueue
    queue,              \* spacesService.queue: focus tasks not yet started
    isProcessing,       \* spacesService.isProcessing
    running,            \* started focus tasks awaiting a gateway reply
    nextTicket,         \* number of tasks pushed so far, plus one
    started,            \* tickets of the tasks started, in start order
    finished,           \* ticket -> outcome of the tasks that have completed
    dbOps,              \* gateway calls issued outside the queue and uiConfirm
                        \* messages, in flight
    store,              \* the records kept by dbService, the environment of the model
    nextId,             \* next id the gateway hands out
    pendingLoads,       \* chrome.windows.create calls of handleLoadSession in flight
    tabHistoryUrlMap,   \* spacesService.tabHistoryUrlMap: tab id -> last complete URL
    aux                 \* history of the run: counters read by the properties only

vars == <<winState, winTabs, heap, sessions, closedWindowIds, sessionUpdateTimers,
          pendingGets, historyQueue, queue, isProcessing, running, nextTicket,
          started, finished, dbOps, store, nextId, pendingLoads, tabHistoryUrlMap,
          aux>>

hostVars == <<winState, winTabs>>
queueVars == <<queue, isProcessing, running, nextTicket, started, finished>>

\* a free heap slot
Blank == [id |-> 0, windowId |-> 0, name |-> "", tabs |-> <<>>,
          sessionHash |-> Zero32, history |-> <<>>]
NoRec == [present |-> FALSE, name |-> ""]

(***************************************************************************)
(* Helpers on sequences.                                                   *)
(***************************************************************************)
RemoveAt(s, i) == SubSeq(s, 1, i - 1) \o SubSeq(s, i + 1, Len(s))

Range(s) == {s[i] : i \in 1..Len(s)}

\* the URLs of a list of host tabs: what session.tabs keeps of them
TabUrls(tabs) == [i \in 1..Len(tabs) |-> tabs[i].url]

Truthy(name) == name # ""

\* a name of white space only: truthy, and empty once trimmed
BlankName == " "

\* name && name.trim() !== ''
NonBlank(name) == Truthy(name) /\ name # BlankName

(***************************************************************************)
(* The service state handed through a handler: st.heap, st.sessions, the   *)
(* gateway calls issued (st.ops), st.hq (historyQueue) and st.ok, which is *)
(* FALSE when the handler would exceed a bound of the model.               *)
(***************************************************************************)
Service == [heap |-> heap, sessions |-> sessions, ops |-> dbOps,
            hq |-> historyQueue, ok |-> TRUE]

\* references held by closures of pending continuations
ClosureRefs(ops, q, run) ==
    {ops[i].oid : i \in 1..Len(ops)}
        \cup {q[i].oid : i \in 1..Len(q)}
        \cup {t.oid : t \in run}

FreeOids(st) == Oids \ (Range(st.sessions) \cup ClosureRefs(st.ops, queue, running))

\* objects no longer referenced are collected
Collect(h, regs, ops, q, run) ==
    [o \in Oids |-> IF o \in Range(regs) \cup ClosureRefs(ops, q, run)
                    THEN h[o] ELSE Blank]

(***************************************************************************)
(* Registry lookups.                                                       *)
(***************************************************************************)
GetSessionBySessionId(st, sessionId) ==
    LET result == SelectSeq(st.sessions, LAMBDA o : st.heap[o].id = sessionId)
    IN  IF Len(result) = 1 THEN result[1] ELSE 0

GetSessionByWindowId(st, windowId) ==
    LET result == SelectSeq(st.sessions, LAMBDA o : st.heap[o].windowId = windowId)
    IN  IF Len(result) = 1 THEN result[1] ELSE 0

\* getSessionBySessionHash taking bound sessions too
GetSessionBySessionHashAny(st, hash, closedOnly) ==
    LET result == SelectSeq(st.sessions, LAMBDA o : st.heap[o].sessionHash = hash)
    IN  IF Len(result) >= 1 THEN result[1] ELSE 0

GetSessionBySessionHash(st, hash, closedOnly) ==
    LET result == SelectSeq(st.sessions, LAMBDA o :
                      IF closedOnly
                      THEN st.heap[o].sessionHash = hash /\ st.heap[o].windowId = 0
                      ELSE st.heap[o].sessionHash = hash)
    IN  IF Len(result) >= 1 THEN result[1] ELSE 0

\* names of the model are lower case: toLowerCase is the identity on them
GetSessionByName(st, name) ==
    LET result == SelectSeq(st.sessions, LAMBDA o :
                      Truthy(st.heap[o].name) /\ st.heap[o].name = name)
    IN  IF Len(result) >= 1 THEN result[1] ELSE 0

(***************************************************************************)
(* Gateway calls issued directly by the service.                           *)
(***************************************************************************)
Op(kind, oid, id, name) == [kind |-> kind, oid |-> oid, id |-> id, name |-> name]

\* the calls of one kind in flight: createSession, the uiConfirm message of
\* the delete command, and updateSession with removeSession
SameKind(ops, op) ==
    LET Dialog(kind) == kind \in {"confirm", "overwrite"}
    IN  {i \in DOMAIN ops : /\ (ops[i].kind = "create") = (op.kind = "create")
                            /\ Dialog(ops[i].kind) = Dialog(op.kind)}

IssueOp(st, op) ==
    IF Cardinality(SameKind(st.ops, op)) >=
           (IF op.kind = "create" THEN MaxCreates ELSE MaxOps)
    THEN [st EXCEPT !.ok = FALSE]
    ELSE [st EXCEPT !.ops = Append(@, op)]

SaveExistingSession(st, sessionId) ==
    LET session == GetSessionBySessionId(st, sessionId)
    IN  IF session = 0 THEN st
        ELSE IssueOp(st, Op("update", 0, sessionId, st.heap[session].name))

SaveNewSession(st, sessionName, tabs, windowId) ==
    LET Least(free) == IF free = {} THEN 0
                       ELSE CHOOSE o \in free : \A p \in free : o <= p
        Filled(base) == [base EXCEPT !.name = sessionName,
                                     !.sessionHash = GenerateSessionHash(tabs),
                                     !.tabs = tabs]
        Save(found, session) ==
            IF session = 0 THEN [st EXCEPT !.ok = FALSE]
            ELSE IssueOp([st EXCEPT
                            !.heap[session] =
                                Filled(IF found # 0 THEN st.heap[session]
                                       ELSE [Blank EXCEPT !.windowId = windowId]),
                            !.sessions = IF found # 0 THEN @ ELSE Append(@, session)],
                         Op("create", session, 0, sessionName))
        WithFound(found) == Save(found, IF found # 0 THEN found
                                        ELSE Least(FreeOids(st)))
    IN  WithFound(IF windowId # 0 THEN GetSessionByWindowId(st, windowId) ELSE 0)

(***************************************************************************)
(* The window matcher.                                                     *)
(***************************************************************************)
RECURSIVE MatchLoop(_, _, _, _)
MatchLoop(st, windowId, i, oldSessionName) ==
    LET Visit(o) ==
            IF st.heap[o].windowId = windowId
            THEN IF st.heap[o].id # 0
                 THEN MatchLoop([st EXCEPT !.heap[o].windowId = 0],
                                windowId, i - 1, oldSessionName)
                 ELSE MatchLoop([st EXCEPT !.sessions = RemoveAt(@, i)],
                                windowId, i - 1, st.heap[o].name)
            ELSE MatchLoop(st, windowId, i - 1, oldSessionName)
    IN  IF i < 1 THEN [st |-> st, oldSessionName |-> oldSessionName]
        ELSE Visit(st.sessions[i])

\* matchSessionToWindow without its loop over the sessions of the window
MatchSessionToWindowNoLoop(st, session, windowId) ==
    [st EXCEPT !.heap[session].windowId = windowId]

\* matchSessionToWindow leaving its loop at the first session of the window
MatchSessionToWindowFirstOnly(st, session, windowId) ==
    LET bound == {i \in 1..Len(st.sessions) :
                     st.heap[st.sessions[i]].windowId = windowId}
        Detach(i) ==
            IF st.heap[st.sessions[i]].id # 0
            THEN [st EXCEPT !.heap[st.sessions[i]].windowId = 0]
            ELSE [st EXCEPT !.sessions = RemoveAt(@, i)]
        Bind(st1) == [st1 EXCEPT !.heap[session].windowId = windowId]
    IN  Bind(IF bound = {} THEN st
             ELSE Detach(CHOOSE i \in bound : \A j \in bound : j <= i))

MatchSessionToWindow(st, session, windowId) ==
    LET Bind(r) ==
            [r.st EXCEPT
                !.heap[session].name =
                    IF ~Truthy(r.st.heap[session].name) /\ Truthy(r.oldSessionName)
                    THEN r.oldSessionName
                    ELSE r.st.heap[session].name,
                !.heap[session].windowId = windowId]
    IN  Bind(MatchLoop(st, windowId, Len(st.sessions), ""))

CreateTemporaryUnmatchedSession(st, windowId, tabs) ==
    LET NameOf(bound) == IF Len(bound) >= 1 THEN st.heap[bound[1]].name ELSE ""
        Pushed(st1, existingName) ==
            IF Truthy(existingName)
            THEN SaveNewSession(st1, existingName, tabs, windowId)
            ELSE st1
        Create(o, existingName) ==
            Pushed([st EXCEPT
                      !.heap[o] = [id |-> 0, windowId |-> windowId,
                                   sessionHash |-> GenerateSessionHash(tabs),
                                   name |-> existingName, tabs |-> tabs,
                                   history |-> <<>>],
                      !.sessions = Append(@, o)],
                   existingName)
        WithFree(free) ==
            IF free = {} THEN [st EXCEPT !.ok = FALSE]
            ELSE Create(CHOOSE x \in free : \A p \in free : x <= p,
                        NameOf(SelectSeq(st.sessions,
                                         LAMBDA o : st.heap[o].windowId = windowId)))
    IN  WithFree(FreeOids(st))

\* curWindow is the window id with its tab URLs
CheckForSessionMatch(st, windowId, tabs) ==
    LET Decide(temporarySession, matchingSession) ==
            IF matchingSession # 0
            THEN MatchSessionToWindow(st, matchingSession, windowId)
            ELSE IF temporarySession = 0
            THEN CreateTemporaryUnmatchedSession(st, windowId, tabs)
            ELSE st
    IN  IF Len(tabs) = 0 THEN st
        ELSE Decide(GetSessionByWindowId(st, windowId),
                    GetSessionBySessionHash(st, GenerateSessionHash(tabs), TRUE))

\* a window of one tab showing a page of the extension (no popup or panel
\* windows are opened by the host of the model)
FilterInternalWindows(tabs) ==
    Len(tabs) = 1 /\ IndexOf(tabs[1], RuntimeId) >= 0

(***************************************************************************)
(* The history tracker.                                                    *)
(***************************************************************************)
HistoryCap == 200

\* index of the first entry of history whose cleaned URL is cleanUrl, or 0
FirstWithCleanUrl(history, cleanUrl) ==
    LET First(hits) == IF hits = {} THEN 0
                       ELSE CHOOSE i \in hits : \A j \in hits : i <= j
    IN  First({i \in 1..Len(history) : CleanUrl(history[i]) = cleanUrl})

\* the closed tab is put first and nothing is cut
AddUrlToSessionHistoryNoSlice(st, session, newUrl) ==
    LET Pruned(old, k) == IF k = 0 THEN old ELSE RemoveAt(old, k)
        Add(cleanUrl, tabBeingRemoved, old) ==
            IF Len(cleanUrl) = 0 THEN st
            ELSE IF Len(tabBeingRemoved) # 1 THEN st
            ELSE [st EXCEPT !.heap[session].history =
                     tabBeingRemoved \o Pruned(old, FirstWithCleanUrl(old, cleanUrl))]
        WithClean(cleanUrl) ==
            Add(cleanUrl,
                SelectSeq(st.heap[session].tabs, LAMBDA u : CleanUrl(u) = cleanUrl),
                st.heap[session].history)
    IN  WithClean(CleanUrl(newUrl))

\* the entry for the cleaned URL stays in the history
AddUrlToSessionHistoryNoPrune(st, session, newUrl) ==
    LET Capped(joined) == SubSeq(joined, 1, IF Len(joined) < HistoryCap
                                            THEN Len(joined) ELSE HistoryCap)
        Add(cleanUrl, tabBeingRemoved, old) ==
            IF Len(cleanUrl) = 0 THEN st
            ELSE IF Len(tabBeingRemoved) # 1 THEN st
            ELSE [st EXCEPT !.heap[session].history = Capped(tabBeingRemoved \o old)]
        WithClean(cleanUrl) ==
            Add(cleanUrl,
                SelectSeq(st.heap[session].tabs, LAMBDA u : CleanUrl(u) = cleanUrl),
                st.heap[session].history)
    IN  WithClean(CleanUrl(newUrl))

AddUrlToSessionHistory(st, session, newUrl) ==
    LET Capped(joined) == SubSeq(joined, 1, IF Len(joined) < HistoryCap
                                            THEN Len(joined) ELSE HistoryCap)
        Pruned(old, k) == IF k = 0 THEN old ELSE RemoveAt(old, k)
        Add(cleanUrl, tabBeingRemoved, old) ==
            IF Len(cleanUrl) = 0 THEN st
            ELSE IF Len(tabBeingRemoved) # 1 THEN st
            ELSE [st EXCEPT !.heap[session].history =
                     Capped(tabBeingRemoved
                                \o Pruned(old, FirstWithCleanUrl(old, cleanUrl)))]
        WithClean(cleanUrl) ==
            Add(cleanUrl,
                SelectSeq(st.heap[session].tabs, LAMBDA u : CleanUrl(u) = cleanUrl),
                st.heap[session].history)
    IN  WithClean(CleanUrl(newUrl))

RemoveUrlFromSessionHistory(st, session, newUrl) ==
    LET Remove(cleanUrl, old, k) ==
            IF Len(cleanUrl) = 0 THEN st
            ELSE IF k = 0 THEN st
            ELSE [st EXCEPT !.heap[session].history = RemoveAt(old, k)]
        WithClean(cleanUrl) ==
            Remove(cleanUrl, st.heap[session].history,
                   FirstWithCleanUrl(st.heap[session].history, cleanUrl))
    IN  WithClean(CleanUrl(newUrl))

\* the loop of handleWindowEvent over historyItems, from the last item to the
\* first; splice(i, 1) is applied to historyQueue with the index i of the item
\* in historyItems (0-based i, so position i + 1 here)
RECURSIVE HistoryLoop(_, _, _, _)
HistoryLoop(st, session, historyItems, i) ==
    LET Spliced(st1) == [st1 EXCEPT !.hq = IF i <= Len(@) THEN RemoveAt(@, i) ELSE @]
        Applied(historyItem) ==
            IF historyItem.action = "add"
            THEN AddUrlToSessionHistory(st, session, historyItem.url)
            ELSE RemoveUrlFromSessionHistory(st, session, historyItem.url)
    IN  IF i < 1 THEN st
        ELSE HistoryLoop(Spliced(Applied(historyItems[i])), session, historyItems,
                         i - 1)

(***************************************************************************)
(* handleWindowRemoved: the callback is a notification of the UI.          *)
(***************************************************************************)
HandleWindowRemoved(st, windowId) ==
    LET First(bound) == CHOOSE i \in bound : \A j \in bound : i <= j
        Unbind(session) ==
            IF session = 0 THEN st
            ELSE IF st.heap[session].id # 0
            THEN [st EXCEPT !.heap[session].windowId = 0]
            ELSE [st EXCEPT !.sessions =
                     RemoveAt(@, First({i \in 1..Len(st.sessions) :
                                 st.heap[st.sessions[i]].windowId = windowId}))]
    IN  Unbind(GetSessionByWindowId(st, windowId))

(***************************************************************************)
(* handleWindowEvent, the callback of chrome.windows.get: found is FALSE   *)
(* when chrome.runtime.lastError is set, tabs are the URLs of the window.  *)
(***************************************************************************)
\* the session of the window is saved: by its id, or under its name
SaveBoundSession(st, session) ==
    IF st.heap[session].id # 0
    THEN SaveExistingSession(st, st.heap[session].id)
    ELSE IF NonBlank(st.heap[session].name)
    THEN SaveNewSession(st, st.heap[session].name, st.heap[session].tabs,
                        st.heap[session].windowId)
    ELSE st

\* the pass takes the tabs of the window and leaves the hash as it was
UpdateBoundSessionStaleHash(st, session, windowId, tabs) ==
    LET historyItems == SelectSeq(st.hq, LAMBDA h : h.windowId = windowId)
        Retabbed(st1) == [st1 EXCEPT !.heap[session].tabs = tabs]
    IN  SaveBoundSession(
            Retabbed(HistoryLoop(st, session, historyItems, Len(historyItems))),
            session)

\* if (session): the history items of the window, then the tabs and the hash
UpdateBoundSession(st, session, windowId, tabs) ==
    LET historyItems == SelectSeq(st.hq, LAMBDA h : h.windowId = windowId)
        Retabbed(st1) == [st1 EXCEPT !.heap[session].tabs = tabs,
                                     !.heap[session].sessionHash =
                                         GenerateSessionHash(tabs)]
    IN  SaveBoundSession(
            Retabbed(HistoryLoop(st, session, historyItems, Len(historyItems))),
            session)

\* the name of the window's session is carried over to the session that
\* checkForSessionMatch left bound to the window
CarryName(st, newSession, currentName) ==
    IF Truthy(currentName) /\ newSession # 0
    THEN [st EXCEPT !.heap[newSession].name = currentName]
    ELSE st

\* if (!session || !session.id)
MatchOrCreate(st, session, windowId, tabs) ==
    LET Matched(st4) == CarryName(st4, GetSessionByWindowId(st4, windowId),
                                  IF session = 0 THEN "" ELSE st.heap[session].name)
    IN  IF session = 0 \/ st.heap[session].id = 0
        THEN Matched(CheckForSessionMatch(st, windowId, tabs))
        ELSE st

ReconcileWindow(st, session, windowId, tabs) ==
    MatchOrCreate(IF session = 0 THEN st
                  ELSE UpdateBoundSession(st, session, windowId, tabs),
                  session, windowId, tabs)

\* handleWindowEvent without its look at closedWindowIds
HandleWindowEventOfClosed(st, windowId, found, tabs) ==
    IF ~found THEN HandleWindowRemoved(st, windowId)
    ELSE IF FilterInternalWindows(tabs) THEN st
    ELSE ReconcileWindow(st, GetSessionByWindowId(st, windowId), windowId, tabs)

HandleWindowEvent(st, windowId, found, tabs) ==
    IF ~found THEN HandleWindowRemoved(st, windowId)
    ELSE IF FilterInternalWindows(tabs) THEN st
    ELSE IF windowId \in closedWindowIds THEN st
    ELSE ReconcileWindow(st, GetSessionByWindowId(st, windowId), windowId, tabs)

(***************************************************************************)
(* The update queue.  A task is the closure pushed by handleWindowFocussed:*)
(* it holds the session object and the window id of the focus event.       *)
(***************************************************************************)
Queue == [queue |-> queue, isProcessing |-> isProcessing, running |-> running,
          started |-> started]

\* processQueue taking the newest task instead of the oldest
ProcessQueueLifo(qs, h) ==
    IF qs.isProcessing \/ Len(qs.queue) = 0 THEN qs
    ELSE LET update == qs.queue[Len(qs.queue)]
         IN  [queue |-> SubSeq(qs.queue, 1, Len(qs.queue) - 1),
              isProcessing |-> TRUE,
              running |-> qs.running \cup
                  {[ticket |-> update.ticket, oid |-> update.oid,
                    windowId |-> update.windowId, pc |-> "fetch",
                    id |-> h[update.oid].id, name |-> ""]},
              started |-> Append(qs.started, update.ticket)]

\* processQueue: update() runs the task up to its first await, the call of
\* dbService.fetchSessionById(session.id, ...)
ProcessQueue(qs, h) ==
    IF qs.isProcessing \/ Len(qs.queue) = 0 THEN qs
    ELSE LET update == Head(qs.queue)
         IN  [queue |-> Tail(qs.queue),
              isProcessing |-> TRUE,
              running |-> qs.running \cup
                  {[ticket |-> update.ticket, oid |-> update.oid,
                    windowId |-> update.windowId, pc |-> "fetch",
                    id |-> h[update.oid].id, name |-> ""]},
              started |-> Append(qs.started, update.ticket)]

\* a task end that clears the flag and does not look at the queue again
TaskEndNoRestart(qs, h) == [qs EXCEPT !.isProcessing = FALSE]

\* the end of a task: its own finally block, then the finally of processQueue
TaskEnd(qs, h) ==
    LET q1 == ProcessQueue([qs EXCEPT !.isProcessing = FALSE], h)
        q2 == [q1 EXCEPT !.isProcessing = FALSE]
    IN  IF Len(q2.queue) > 0 THEN ProcessQueue(q2, h) ELSE q2

SetService(st) ==
    /\ st.ok
    /\ heap' = Collect(st.heap, st.sessions, st.ops, queue, running)
    /\ sessions' = st.sessions
    /\ dbOps' = st.ops
    /\ historyQueue' = st.hq

SetQueue(qs) ==
    /\ queue' = qs.queue
    /\ isProcessing' = qs.isProcessing
    /\ running' = qs.running
    /\ started' = qs.started

(***************************************************************************)
(* Host events and their listeners (background.js).                        *)
(***************************************************************************)
TabSlot(w, k) == (w - 1) * MaxTabs + k

NewTabs(w, urls) == [k \in 1..Len(urls) |-> [id |-> TabSlot(w, k), url |-> urls[k]]]

UrlLists == {<<u>> : u \in Urls} \cup {<<u, v>> : u \in Urls, v \in Urls}

NextWindow == IF \E w \in WinIds : winState[w] = "none"
              THEN CHOOSE w \in WinIds :
                      /\ winState[w] = "none"
                      /\ \A v \in WinIds : winState[v] = "none" => w <= v
              ELSE 0

\* the host opens a window; chrome.tabs.onCreated only refreshes the UI
HostOpenWindow(urls) ==
    /\ NextWindow # 0
    /\ Len(urls) <= MaxTabs
    /\ winState' = [winState EXCEPT ![NextWindow] = "open"]
    /\ winTabs' = [winTabs EXCEPT ![NextWindow] = NewTabs(NextWindow, urls)]
    /\ UNCHANGED <<heap, sessions, closedWindowIds, sessionUpdateTimers, pendingGets,
                   historyQueue, dbOps, store, nextId, pendingLoads, tabHistoryUrlMap>>
    /\ UNCHANGED queueVars

\* clearTimeout(sessionUpdateTimers[windowId]): the handle is that of the
\* timeout set last, which is pending if any timeout of the window is
ClearTimeout(n) == IF n >= 1 THEN n - 1 ELSE 0

\* queueWindowEvent without its clearTimeout
QueueWindowEventNoClear(timers, windowId) == [timers EXCEPT ![windowId] = @ + 1]

\* queueWindowEvent: clearTimeout, then setTimeout(..., 1000)
QueueWindowEvent(timers, windowId) ==
    [timers EXCEPT ![windowId] = ClearTimeout(@) + 1]

\* the listener of chrome.tabs.onUpdated returns early on status 'complete'
\* when the session of the window has a name
ListenerSkips(w) ==
    LET session == GetSessionByWindowId(Service, w)
    IN  session # 0 /\ Truthy(heap[session].name)

\* chrome.tabs.onUpdated with changeInfo.status = 'complete'
TabUpdatedComplete(w, k) ==
    /\ winState[w] = "open"
    /\ k \in 1..Len(winTabs[w])
    /\ IF ListenerSkips(w)
       THEN UNCHANGED <<tabHistoryUrlMap, sessionUpdateTimers>>
       ELSE /\ tabHistoryUrlMap' =
                  [tabHistoryUrlMap EXCEPT ![winTabs[w][k].id] = winTabs[w][k].url]
            /\ sessionUpdateTimers' = QueueWindowEvent(sessionUpdateTimers, w)
    /\ UNCHANGED <<heap, sessions, closedWindowIds, pendingGets, historyQueue, dbOps,
                   store, nextId, pendingLoads>>
    /\ UNCHANGED hostVars
    /\ UNCHANGED queueVars

\* the items of historyQueue with the action given
Queued(action) == SelectSeq(historyQueue, LAMBDA item : item.action = action)

\* chrome.tabs.onUpdated with changeInfo.url while the tab is loading
TabUpdatedUrl(w, k, url) ==
    /\ winState[w] = "open"
    /\ k \in 1..Len(winTabs[w])
    /\ url # winTabs[w][k].url
    /\ Len(Queued("remove")) < MaxHistQ
    /\ winTabs' = [winTabs EXCEPT ![w][k].url = url]
    /\ historyQueue' = Append(historyQueue,
                              [url |-> url, windowId |-> w, action |-> "remove"])
    /\ UNCHANGED <<winState, heap, sessions, closedWindowIds, sessionUpdateTimers,
                   pendingGets, dbOps, store, nextId, pendingLoads, tabHistoryUrlMap>>
    /\ UNCHANGED queueVars

\* chrome.tabs.onRemoved with isWindowClosing = false
TabRemoved(w, k) ==
    /\ winState[w] = "open"
    /\ Len(winTabs[w]) >= 2
    /\ k \in 1..Len(winTabs[w])
    /\ Len(Queued("add")) < MaxHistQ
    /\ winTabs' = [winTabs EXCEPT ![w] = RemoveAt(@, k)]
    /\ historyQueue' = Append(historyQueue,
                              [url |-> tabHistoryUrlMap[winTabs[w][k].id],
                               windowId |-> w, action |-> "add"])
    /\ sessionUpdateTimers' = QueueWindowEvent(sessionUpdateTimers, w)
    /\ tabHistoryUrlMap' = [tabHistoryUrlMap EXCEPT ![winTabs[w][k].id] = NoUrl]
    /\ UNCHANGED <<winState, heap, sessions, closedWindowIds, pendingGets, dbOps,
                   store, nextId, pendingLoads>>
    /\ UNCHANGED queueVars

\* chrome.tabs.onMoved
TabMoved(w) ==
    /\ winState[w] = "open"
    /\ Len(winTabs[w]) = 2
    /\ winTabs' = [winTabs EXCEPT ![w] = <<@[2], @[1]>>]
    /\ sessionUpdateTimers' = QueueWindowEvent(sessionUpdateTimers, w)
    /\ UNCHANGED <<winState, heap, sessions, closedWindowIds, pendingGets,
                   historyQueue, dbOps, store, nextId, pendingLoads, tabHistoryUrlMap>>
    /\ UNCHANGED queueVars

\* the host starts to close a window: its tabs go one by one
HostCloseWindow(w) ==
    /\ winState[w] = "open"
    /\ winState' = [winState EXCEPT ![w] = "closing"]
    /\ UNCHANGED <<winTabs, heap, sessions, closedWindowIds, sessionUpdateTimers,
                   pendingGets, historyQueue, dbOps, store, nextId, pendingLoads,
                   tabHistoryUrlMap>>
    /\ UNCHANGED queueVars

\* handleWindowRemoved(windowId, true, callback): the listeners of
\* tabs.onRemoved with isWindowClosing and of windows.onRemoved
WindowRemovedMarked(w) ==
    /\ closedWindowIds' = closedWindowIds \cup {w}
    /\ sessionUpdateTimers' = [sessionUpdateTimers EXCEPT ![w] = ClearTimeout(@)]
    /\ SetService(HandleWindowRemoved(Service, w))

TabRemovedClosing(w) ==
    /\ winState[w] = "closing"
    /\ Len(winTabs[w]) >= 1
    /\ winTabs' = [winTabs EXCEPT ![w] = Tail(@)]
    /\ WindowRemovedMarked(w)
    /\ UNCHANGED <<winState, pendingGets, store, nextId, pendingLoads, tabHistoryUrlMap>>
    /\ UNCHANGED queueVars

WindowRemoved(w) ==
    /\ winState[w] = "closing"
    /\ Len(winTabs[w]) = 0
    /\ winState' = [winState EXCEPT ![w] = "gone"]
    /\ WindowRemovedMarked(w)
    /\ UNCHANGED <<winTabs, pendingGets, store, nextId, pendingLoads, tabHistoryUrlMap>>
    /\ UNCHANGED queueVars

(***************************************************************************)
(* The event coalescer.                                                    *)
(***************************************************************************)
\* the debounce timer of a window fires: handleWindowEvent asks the host
TimerFire(w) ==
    /\ sessionUpdateTimers[w] >= 1
    /\ pendingGets[w] < MaxGets
    /\ sessionUpdateTimers' = [sessionUpdateTimers EXCEPT ![w] = @ - 1]
    /\ pendingGets' = [pendingGets EXCEPT ![w] = @ + 1]
    /\ UNCHANGED <<heap, sessions, closedWindowIds, historyQueue, dbOps, store,
                   nextId, pendingLoads, tabHistoryUrlMap>>
    /\ UNCHANGED hostVars
    /\ UNCHANGED queueVars

\* the host answers chrome.windows.get
WindowGetReply(w, found) ==
    /\ pendingGets[w] > 0
    /\ found => winState[w] \in {"open", "closing"} /\ Len(winTabs[w]) >= 1
    /\ ~found => winState[w] \in {"closing", "gone"}
    /\ pendingGets' = [pendingGets EXCEPT ![w] = @ - 1]
    /\ SetService(HandleWindowEvent(Service, w, found, TabUrls(winTabs[w])))
    /\ UNCHANGED <<closedWindowIds, sessionUpdateTimers, store, nextId, pendingLoads,
                   tabHistoryUrlMap>>
    /\ UNCHANGED hostVars
    /\ UNCHANGED queueVars

(***************************************************************************)
(* Window focus: chrome.windows.onFocusChanged -> handleWindowFocussed.    *)
(***************************************************************************)
\* handleWindowFocussed without the return on a temporary session
HandleWindowFocussedAnySession(w) ==
    /\ w >= 1 => winState[w] = "open"
    /\ LET session == IF w <= 0 THEN 0 ELSE GetSessionByWindowId(Service, w)
       IN  IF session = 0
           THEN UNCHANGED queueVars
           ELSE /\ nextTicket <= MaxTasks
                /\ nextTicket' = nextTicket + 1
                /\ LET pushed == [Queue EXCEPT !.queue = Append(@,
                                     [ticket |-> nextTicket, oid |-> session,
                                      windowId |-> w])]
                   IN  SetQueue(IF ~isProcessing THEN ProcessQueue(pushed, heap)
                                ELSE pushed)
                /\ UNCHANGED finished
    /\ UNCHANGED <<heap, sessions, closedWindowIds, sessionUpdateTimers, pendingGets,
                   historyQueue, dbOps, store, nextId, pendingLoads, tabHistoryUrlMap>>
    /\ UNCHANGED hostVars

\* handleWindowFocussed: w is the id of a window that is open, or an id <= 0
HandleWindowFocussed(w) ==
    /\ w >= 1 => winState[w] = "open"
    /\ LET session == IF w <= 0 THEN 0 ELSE GetSessionByWindowId(Service, w)
       IN  IF session = 0 \/ heap[session].id = 0
           THEN UNCHANGED queueVars
           ELSE /\ nextTicket <= MaxTasks
                /\ nextTicket' = nextTicket + 1
                /\ LET pushed == [Queue EXCEPT !.queue = Append(@,
                                     [ticket |-> nextTicket, oid |-> session,
                                      windowId |-> w])]
                   IN  SetQueue(IF ~isProcessing THEN ProcessQueue(pushed, heap)
                                ELSE pushed)
                /\ UNCHANGED finished
    /\ UNCHANGED <<heap, sessions, closedWindowIds, sessionUpdateTimers, pendingGets,
                   historyQueue, dbOps, store, nextId, pendingLoads, tabHistoryUrlMap>>
    /\ UNCHANGED hostVars

\* a started task ends: with outcome "done", "failed" (updateSession reported
\* failure) or "skipped" (the stored record is missing)
FinishTask(t, outcome, h) ==
    /\ SetQueue(TaskEnd([Queue EXCEPT !.running = @ \ {t}], h))
    /\ finished' = [finished EXCEPT ![t.ticket] = outcome]
    /\ UNCHANGED nextTicket

\* the focus task keeps the name in memory whatever the stored record says
FocusFetchReplyKeepName(t) ==
    /\ t \in running
    /\ t.pc = "fetch"
    /\ IF ~store[t.id].present
       THEN /\ FinishTask(t, "skipped", heap)
            /\ heap' = Collect(heap, sessions, dbOps, queue', running')
       ELSE /\ heap' = [heap EXCEPT ![t.oid].windowId = t.windowId]
            /\ running' = (running \ {t}) \cup
                            {[t EXCEPT !.pc = "update", !.id = heap[t.oid].id,
                                       !.name = heap[t.oid].name]}
            /\ UNCHANGED <<queue, isProcessing, nextTicket, started, finished>>
    /\ UNCHANGED <<sessions, closedWindowIds, sessionUpdateTimers, pendingGets,
                   historyQueue, dbOps, store, nextId, pendingLoads, tabHistoryUrlMap>>
    /\ UNCHANGED hostVars

\* the gateway answers fetchSessionById of a focus task
FocusFetchReply(t) ==
    /\ t \in running
    /\ t.pc = "fetch"
    /\ LET dbSession == store[t.id]
           session == t.oid
       IN  IF ~dbSession.present
           THEN /\ FinishTask(t, "skipped", heap)
                /\ heap' = Collect(heap, sessions, dbOps, queue', running')
           ELSE LET name == IF NonBlank(heap[session].name) THEN heap[session].name
                            ELSE IF NonBlank(dbSession.name) THEN dbSession.name
                            ELSE heap[session].name
                    h1 == [heap EXCEPT ![session].name = name,
                                       ![session].windowId = t.windowId]
                IN  /\ heap' = h1
                    /\ running' = (running \ {t}) \cup
                                    {[t EXCEPT !.pc = "update", !.id = h1[session].id,
                                               !.name = name]}
                    /\ UNCHANGED <<queue, isProcessing, nextTicket, started, finished>>
    /\ UNCHANGED <<sessions, closedWindowIds, sessionUpdateTimers, pendingGets,
                   historyQueue, dbOps, store, nextId, pendingLoads, tabHistoryUrlMap>>
    /\ UNCHANGED hostVars

\* updateSession(record) -> ok|fail of the gateway: the record it was handed
\* is stored, or nothing is
GatewayUpdate(id, name, updated) ==
    IF updated THEN [store EXCEPT ![id].name = name] ELSE store

\* the gateway answers updateSession of a focus task
FocusUpdateReply(t, updated) ==
    /\ t \in running
    /\ t.pc = "update"
    /\ updated => store[t.id].present
    /\ store' = GatewayUpdate(t.id, t.name, updated)
    /\ FinishTask(t, IF updated THEN "done" ELSE "failed", heap)
    /\ heap' = Collect(heap, sessions, dbOps, queue', running')
    /\ UNCHANGED <<sessions, closedWindowIds, sessionUpdateTimers, pendingGets,
                   historyQueue, dbOps, nextId, pendingLoads, tabHistoryUrlMap>>
    /\ UNCHANGED hostVars

(***************************************************************************)
(* Commands of the presentation layer (background.js).                     *)
(***************************************************************************)
\* handleSaveNewSession after chrome.windows.get, no session has the name
HandleSaveNewSession(w, sessionName) ==
    /\ winState[w] = "open"
    /\ Truthy(sessionName)
    /\ GetSessionByName(Service, sessionName) = 0
    /\ SetService(SaveNewSession(Service, sessionName, TabUrls(winTabs[w]), w))
    /\ UNCHANGED <<closedWindowIds, sessionUpdateTimers, pendingGets, store, nextId,
                   pendingLoads, tabHistoryUrlMap>>
    /\ UNCHANGED hostVars
    /\ UNCHANGED queueVars

\* handleAddLinkToNewSession: saveNewSession(sessionName, [{ url }], false),
\* or callback(false) when a session has the name
HandleAddLinkToNewSession(url, sessionName) ==
    /\ GetSessionByName(Service, sessionName) = 0
    /\ SetService(SaveNewSession(Service, sessionName, <<url>>, 0))
    /\ UNCHANGED <<closedWindowIds, sessionUpdateTimers, pendingGets, store, nextId,
                   pendingLoads, tabHistoryUrlMap>>
    /\ UNCHANGED hostVars
    /\ UNCHANGED queueVars

\* handleUpdateSessionName, no other session has the name: updateSessionName
HandleUpdateSessionName(sessionId, sessionName) ==
    /\ Truthy(sessionName)
    /\ LET existingSession == GetSessionByName(Service, sessionName)
           session == GetSessionBySessionId(Service, sessionId)
       IN  /\ IF existingSession = 0 THEN TRUE
              ELSE heap[existingSession].id = sessionId
           /\ session # 0
           /\ SetService(SaveExistingSession(
                  [Service EXCEPT !.heap[session].name = sessionName], sessionId))
    /\ UNCHANGED <<closedWindowIds, sessionUpdateTimers, pendingGets, store, nextId,
                   pendingLoads, tabHistoryUrlMap>>
    /\ UNCHANGED hostVars
    /\ UNCHANGED queueVars

\* handleDeleteSession once the user has confirmed: deleteSession
HandleDeleteSession(sessionId) ==
    /\ GetSessionBySessionId(Service, sessionId) # 0
    /\ SetService(IssueOp(Service, Op("remove", 0, sessionId, "")))
    /\ UNCHANGED <<closedWindowIds, sessionUpdateTimers, pendingGets, store, nextId,
                   pendingLoads, tabHistoryUrlMap>>
    /\ UNCHANGED hostVars
    /\ UNCHANGED queueVars

\* deleteSession: dbService.removeSession(sessionId, ...)
DeleteSession(st, sessionId) == IssueOp(st, Op("remove", 0, sessionId, ""))

\* the delete command going on to deleteSession whatever the answer
AfterConfirmAnyAnswer(st, sessionId, confirmed) == DeleteSession(st, sessionId)

\* handleDeleteSession after its await: callback(false) when the user did
\* not confirm, deleteSession when they did
AfterConfirm(st, sessionId, confirmed) ==
    IF ~confirmed THEN st ELSE DeleteSession(st, sessionId)

\* handleDeleteSession(sessionId, false, sendResponse) up to its await:
\* checkSessionDelete sends the uiConfirm message
AskDelete(sessionId) ==
    /\ SetService(IssueOp(Service, Op("confirm", 0, sessionId, "")))
    /\ UNCHANGED <<closedWindowIds, sessionUpdateTimers, pendingGets, store, nextId,
                   pendingLoads, tabHistoryUrlMap>>
    /\ UNCHANGED hostVars
    /\ UNCHANGED queueVars

\* the presentation layer answers the uiConfirm message
ConfirmReply(i, confirmed) ==
    /\ i \in 1..Len(dbOps)
    /\ dbOps[i].kind = "confirm"
    /\ SetService(AfterConfirm([Service EXCEPT !.ops = RemoveAt(@, i)],
                               dbOps[i].id, confirmed))
    /\ UNCHANGED <<closedWindowIds, sessionUpdateTimers, pendingGets, store, nextId,
                   pendingLoads, tabHistoryUrlMap>>
    /\ UNCHANGED hostVars
    /\ UNCHANGED queueVars

\* handleRestoreFromBackup for a backup of one space: a space whose name is
\* taken by a session bound to a window is skipped, one whose name is taken
\* by an unbound session waits for the user's answer to uiConfirm, any other
\* is saved at once
HandleRestoreFromBackup(name, tabs) ==
    /\ LET existingSession == IF Truthy(name) THEN GetSessionByName(Service, name)
                              ELSE 0
       IN  SetService(IF existingSession = 0
                      THEN SaveNewSession(Service, name, tabs, 0)
                      ELSE IF heap[existingSession].windowId # 0 THEN Service
                      ELSE IssueOp(Service, Op("overwrite", 0,
                                               heap[existingSession].id, name)))
    /\ UNCHANGED <<closedWindowIds, sessionUpdateTimers, pendingGets, store, nextId,
                   pendingLoads, tabHistoryUrlMap>>
    /\ UNCHANGED hostVars
    /\ UNCHANGED queueVars

\* the user answers the overwrite question of handleRestoreFromBackup: on
\* yes deleteSession is called for the session found before the question,
\* without waiting for it, and the space is saved
OverwriteReply(i, confirmed, tabs) ==
    /\ i \in 1..Len(dbOps)
    /\ dbOps[i].kind = "overwrite"
    /\ LET asked == [Service EXCEPT !.ops = RemoveAt(@, i)]
       IN  SetService(IF ~confirmed THEN asked
                      ELSE SaveNewSession(DeleteSession(asked, dbOps[i].id),
                                          dbOps[i].name, tabs, 0))
    /\ UNCHANGED <<closedWindowIds, sessionUpdateTimers, pendingGets, store, nextId,
                   pendingLoads, tabHistoryUrlMap>>
    /\ UNCHANGED hostVars
    /\ UNCHANGED queueVars

\* handleLoadSession of an unbound session: chrome.windows.create
HandleLoadSession(sessionId) ==
    /\ NextWindow # 0
    /\ LET session == GetSessionBySessionId(Service, sessionId)
       IN  /\ session # 0
           /\ heap[session].windowId = 0
           /\ Len(heap[session].tabs) >= 1
           /\ winState' = [winState EXCEPT ![NextWindow] = "open"]
           /\ winTabs' = [winTabs EXCEPT ![NextWindow] =
                                NewTabs(NextWindow, heap[session].tabs)]
           /\ pendingLoads' = pendingLoads \cup
                                {[id |-> sessionId, windowId |-> NextWindow]}
    /\ UNCHANGED <<heap, sessions, closedWindowIds, sessionUpdateTimers, pendingGets,
                   historyQueue, dbOps, store, nextId, tabHistoryUrlMap>>
    /\ UNCHANGED queueVars

\* chrome.windows.create resolves: updateSessionWindowId
UpdateSessionWindowId(st, sessionId, windowId) ==
    LET session == GetSessionBySessionId(st, sessionId)
    IN  IF session = 0 THEN st
        ELSE IssueOp([st EXCEPT !.heap[session].windowId = windowId],
                     Op("update", 0, sessionId, st.heap[session].name))

LoadSessionReply(l) ==
    /\ l \in pendingLoads
    /\ pendingLoads' = pendingLoads \ {l}
    /\ SetService(UpdateSessionWindowId(Service, l.id, l.windowId))
    /\ UNCHANGED <<closedWindowIds, sessionUpdateTimers, pendingGets, store, nextId,
                   tabHistoryUrlMap>>
    /\ UNCHANGED hostVars
    /\ UNCHANGED queueVars

(***************************************************************************)
(* Replies of the persistence gateway to the calls issued outside the      *)
(* queue.                                                                  *)
(***************************************************************************)
\* createSession answers: savedSession with a fresh id, or false
CreateSessionReply(i, saved) ==
    /\ i \in 1..Len(dbOps)
    /\ dbOps[i].kind = "create"
    /\ saved => nextId <= MaxId
    /\ LET op == dbOps[i]
           h1 == IF saved THEN [heap EXCEPT ![op.oid].id = nextId] ELSE heap
       IN  /\ SetService([Service EXCEPT !.heap = h1, !.ops = RemoveAt(@, i)])
           /\ store' = IF saved
                       THEN [store EXCEPT ![nextId] = [present |-> TRUE, name |-> op.name]]
                       ELSE store
           /\ nextId' = IF saved THEN nextId + 1 ELSE nextId
    /\ UNCHANGED <<closedWindowIds, sessionUpdateTimers, pendingGets, pendingLoads,
                   tabHistoryUrlMap>>
    /\ UNCHANGED hostVars
    /\ UNCHANGED queueVars

\* updateSession answers
UpdateSessionReply(i, updated) ==
    /\ i \in 1..Len(dbOps)
    /\ dbOps[i].kind = "update"
    /\ updated => store[dbOps[i].id].present
    /\ store' = GatewayUpdate(dbOps[i].id, dbOps[i].name, updated)
    /\ SetService([Service EXCEPT !.ops = RemoveAt(@, i)])
    /\ UNCHANGED <<closedWindowIds, sessionUpdateTimers, pendingGets, nextId,
                   pendingLoads, tabHistoryUrlMap>>
    /\ UNCHANGED hostVars
    /\ UNCHANGED queueVars

\* removeSession answers: the callback of deleteSession drops the session
DeleteSessionCallback(st, sessionId) ==
    LET hits == {i \in 1..Len(st.sessions) : st.heap[st.sessions[i]].id = sessionId}
    IN  IF hits = {} THEN st
        ELSE [st EXCEPT !.sessions =
                 RemoveAt(@, CHOOSE i \in hits : \A j \in hits : i <= j)]

RemoveSessionReply(i) ==
    /\ i \in 1..Len(dbOps)
    /\ dbOps[i].kind = "remove"
    /\ store' = IF dbOps[i].id \in Ids THEN [store EXCEPT ![dbOps[i].id] = NoRec]
                ELSE store
    /\ SetService(DeleteSessionCallback([Service EXCEPT !.ops = RemoveAt(@, i)],
                                        dbOps[i].id))
    /\ UNCHANGED <<closedWindowIds, sessionUpdateTimers, pendingGets, nextId,
                   pendingLoads, tabHistoryUrlMap>>
    /\ UNCHANGED hostVars
    /\ UNCHANGED queueVars

(***************************************************************************)
(* Initial states.                                                         *)
(***************************************************************************)
NoAux == [notes |-> [w \in WinIds |-> 0], bursts |-> [w \in WinIds |-> 0],
          passes |-> [w \in WinIds |-> 0],
          ren |-> [id |-> 0, name |-> "", win |-> 0, gone |-> FALSE,
                   written |-> FALSE, focused |-> FALSE],
          adopt |-> [k \in 1..MaxTasks |-> ""],
          closed |-> [url |-> NoUrl, had |-> 0],
          pieces |-> 0,
          match |-> [win |-> 0, oid |-> 0, temps |-> 0],
          rebound |-> [win |-> 0, oid |-> 0, bound |-> {}],
          del |-> [confirmed |-> {}, refused |-> {}],
          idle |-> {},
          shut |-> {},
          named |-> [win |-> 0, oid |-> 0, name |-> ""]]

\* the service as constructed: nothing stored, no window open
InitFresh ==
    /\ winState = [w \in WinIds |-> "none"]
    /\ winTabs = [w \in WinIds |-> <<>>]
    /\ heap = [o \in Oids |-> Blank]
    /\ sessions = <<>>
    /\ closedWindowIds = {}
    /\ sessionUpdateTimers = [w \in WinIds |-> 0]
    /\ pendingGets = [w \in WinIds |-> 0]
    /\ historyQueue = <<>>
    /\ queue = <<>>
    /\ isProcessing = FALSE
    /\ running = {}
    /\ nextTicket = 1
    /\ started = <<>>
    /\ finished = [k \in 1..MaxTasks |-> "none"]
    /\ dbOps = <<>>
    /\ store = [i \in Ids |-> NoRec]
    /\ nextId = 1
    /\ pendingLoads = {}
    /\ tabHistoryUrlMap = [t \in TabIds |-> NoUrl]
    /\ aux = NoAux

\* the service after initialiseSpaces and initialiseTabHistory, when the store
\* holds one session "n1" of one tab and window 1 is open with that tab:
\* checkForSessionMatch has bound the session to the window
InitLoaded ==
    /\ winState = [w \in WinIds |-> IF w = 1 THEN "open" ELSE "none"]
    /\ winTabs = [w \in WinIds |-> IF w = 1 THEN NewTabs(1, <<UrlA>>) ELSE <<>>]
    /\ heap = [o \in Oids |->
                 IF o = 1
                 THEN [id |-> 1, windowId |-> 1, name |-> "n1", tabs |-> <<UrlA>>,
                       sessionHash |-> GenerateSessionHash(<<UrlA>>), history |-> <<>>]
                 ELSE Blank]
    /\ sessions = <<1>>
    /\ closedWindowIds = {}
    /\ sessionUpdateTimers = [w \in WinIds |-> 0]
    /\ pendingGets = [w \in WinIds |-> 0]
    /\ historyQueue = <<>>
    /\ queue = <<>>
    /\ isProcessing = FALSE
    /\ running = {}
    /\ nextTicket = 1
    /\ started = <<>>
    /\ finished = [k \in 1..MaxTasks |-> "none"]
    /\ dbOps = <<>>
    /\ store = [i \in Ids |-> IF i = 1 THEN [present |-> TRUE, name |-> "n1"] ELSE NoRec]
    /\ nextId = 2
    /\ pendingLoads = {}
    /\ tabHistoryUrlMap = [t \in TabIds |-> IF t = TabSlot(1, 1) THEN UrlA ELSE NoUrl]
    /\ aux = NoAux

(***************************************************************************)
(* The update queue with its callers: focus events on the window of a      *)
(* stored session, renames and deletes of the session from the UI.         *)
(***************************************************************************)
\* the rename that changed the name of a session last: its session, its name,
\* the window the session had; what was observed before it is forgotten
Renamed(sessionId, sessionName) ==
    LET session == GetSessionBySessionId(Service, sessionId)
    IN  aux' = IF session = 0 THEN aux
               ELSE IF heap[session].name = sessionName THEN aux
               ELSE [aux EXCEPT !.ren = [id |-> sessionId, name |-> sessionName,
                                         win |-> heap[session].windowId,
                                         gone |-> FALSE, written |-> FALSE,
                                         focused |-> FALSE],
                                !.adopt = [k \in 1..MaxTasks |-> ""]]

\* the gateway has stored the name of the last rename
Written(i, updated) ==
    aux' = IF updated /\ dbOps[i].id = aux.ren.id /\ dbOps[i].name = aux.ren.name
           THEN [aux EXCEPT !.ren.written = TRUE] ELSE aux

\* a focus task of the renamed session has completed after the rename
Focused(t, updated) ==
    aux' = IF updated /\ t.id = aux.ren.id
           THEN [aux EXCEPT !.ren.focused = TRUE] ELSE aux

\* the focus task reads a stored name while the session in memory has none:
\* the stored name it read
Adopted(t) ==
    aux' = IF /\ store[t.id].present
              /\ ~NonBlank(heap[t.oid].name)
              /\ NonBlank(store[t.id].name)
           THEN [aux EXCEPT !.adopt[t.ticket] = store[t.id].name] ELSE aux

NextQueue ==
    \/ \E w \in WinIds : HandleWindowFocussed(w) /\ UNCHANGED aux
    \/ \E t \in running : FocusFetchReply(t) /\ Adopted(t)
    \/ \E t \in running, updated \in BOOLEAN :
          FocusUpdateReply(t, updated) /\ Focused(t, updated)
    \/ \E i \in Ids, n \in Names \cup {BlankName} :
          HandleUpdateSessionName(i, n) /\ Renamed(i, n)
    \/ \E i \in Ids : HandleDeleteSession(i) /\ UNCHANGED aux
    \/ \E i \in DOMAIN dbOps, updated \in BOOLEAN :
          UpdateSessionReply(i, updated) /\ Written(i, updated)
    \/ \E i \in DOMAIN dbOps : RemoveSessionReply(i) /\ UNCHANGED aux

SpecQueue == InitLoaded /\ [][NextQueue]_vars

\* the gateway answers every call
FairQueue ==
    /\ WF_vars(\E t \in running : FocusFetchReply(t) /\ Adopted(t))
    /\ WF_vars(\E t \in running, updated \in BOOLEAN :
                  FocusUpdateReply(t, updated) /\ Focused(t, updated))

FairSpecQueue == SpecQueue /\ FairQueue

(***************************************************************************)
(* Properties of the update queue.                                         *)
(***************************************************************************)
InQueue(k) == \E i \in 1..Len(queue) : queue[i].ticket = k
IsRunning(k) == \E t \in running : t.ticket = k
Started(k) == \E i \in 1..Len(started) : started[i] = k
Failed(k) == finished[k] \in {"failed", "skipped"}

\* C2: at most one unit of work taken from the update queue is in flight at
\* any time: processQueue never starts the next task before the previously
\* started task has completed
C2_OneTaskInFlight == Cardinality(running) <= 1

\* gateway writes in flight: those issued by the service directly and the
\* updateSession calls of running focus tasks
WritesInFlight == Len(dbOps) + Cardinality({t \in running : t.pc = "update"})

\* C3: every create, update and remove call to the gateway is issued from
\* inside a unit of work of the update queue, so no two gateway writes are in
\* flight at the same time
C3_QueueIsSoleWriter == Len(dbOps) = 0 /\ WritesInFlight <= 1

\* C4: units of work are started in exactly the order in which they were
\* pushed (tickets number the pushes), each at most once
C4_StartedInPushOrder == \A i \in 1..Len(started) : started[i] = i

C4_Witness == Len(started) >= 3 /\ finished[1] # "none"

\* C5: a unit of work that failed or skipped is dropped and never run again,
\* isProcessing is false again once no task runs, and every unit that is in
\* the queue when another has failed is eventually started
C5_FailureDoesNotBlock ==
    /\ [](\A k \in 1..MaxTasks :
            /\ Failed(k) => ~InQueue(k) /\ ~IsRunning(k)
            /\ Cardinality({i \in 1..Len(started) : started[i] = k}) <= 1)
    /\ []((running = {}) => ~isProcessing)
    /\ \A j \in 1..MaxTasks, k \in 1..MaxTasks :
          (Failed(j) /\ InQueue(k)) ~> Started(k)

C5_Witness ==
    \E j \in 1..MaxTasks, k \in 1..MaxTasks :
        /\ finished[j] = "failed"
        /\ finished[k] = "skipped"
        /\ \E l \in 1..MaxTasks : l > j /\ l > k /\ Started(l)

(***************************************************************************)
(* The event coalescer with the tab notifications that reach it.  aux      *)
(* counts, per window: the notifications (notes), those that found no      *)
(* timeout pending (bursts), and the reconciliation passes started         *)
(* (passes).                                                               *)
(***************************************************************************)
Note(w) ==
    /\ aux.notes[w] < MaxNotes
    /\ aux' = [aux EXCEPT !.notes[w] = @ + 1,
                          !.bursts[w] = IF sessionUpdateTimers[w] = 0 THEN @ + 1 ELSE @]

Pass(w) == aux' = [aux EXCEPT !.passes[w] = @ + 1]

NextDebounce ==
    \/ HostOpenWindow(<<UrlA, UrlB>>) /\ UNCHANGED aux
    \/ \E w \in WinIds, k \in 1..MaxTabs : TabUpdatedComplete(w, k) /\ Note(w)
    \/ \E w \in WinIds, k \in 1..MaxTabs : TabRemoved(w, k) /\ Note(w)
    \/ \E w \in WinIds : TabMoved(w) /\ Note(w)
    \/ \E w \in WinIds : TimerFire(w) /\ Pass(w)
    \/ \E w \in WinIds : WindowGetReply(w, TRUE) /\ UNCHANGED aux

SpecDebounce == InitFresh /\ [][NextDebounce]_vars

\* C6: notifications for one window that each arrive before the timeout set
\* by the previous one has fired start exactly one reconciliation pass, which
\* runs after the last of them: every burst has one pass or one pending
\* timeout, never both and never more
C6_OnePassPerBurst ==
    \A w \in WinIds : aux.passes[w] + sessionUpdateTimers[w] = aux.bursts[w]

C6_Witness ==
    \E w \in WinIds : aux.notes[w] >= 3 /\ aux.bursts[w] = 1 /\ aux.passes[w] = 1

(***************************************************************************)
(* The session tracker: windows open and close, their tabs finish loading, *)
(* the coalescer starts reconciliation passes, windows get the focus and   *)
(* the user renames the stored session.  aux.ren records the last rename:  *)
(* the session id, the new name, the window the session was bound to and   *)
(* whether that window is gone since.  A rename to the name the session    *)
(* has is not recorded.                                                    *)
(***************************************************************************)
Gone(w) == aux' = IF aux.ren.win = w THEN [aux EXCEPT !.ren.gone = TRUE] ELSE aux

\* the sessions of the registry bound to window w
BoundTo(w) == {o \in Range(sessions) : heap[o].windowId = w}

Next ==
    \/ HostOpenWindow(<<UrlA>>) /\ UNCHANGED aux
    \/ \E w \in WinIds, k \in 1..MaxTabs : TabUpdatedComplete(w, k) /\ UNCHANGED aux
    \/ \E w \in WinIds : HostCloseWindow(w) /\ UNCHANGED aux
    \/ \E w \in WinIds : TabRemovedClosing(w) /\ UNCHANGED aux
    \/ \E w \in WinIds : WindowRemoved(w) /\ Gone(w)
    \/ \E w \in WinIds : TimerFire(w) /\ UNCHANGED aux
    \/ \E w \in WinIds, found \in BOOLEAN : WindowGetReply(w, found) /\ UNCHANGED aux
    \/ \E w \in WinIds : HandleWindowFocussed(w) /\ UNCHANGED aux
    \/ \E t \in running : FocusFetchReply(t) /\ UNCHANGED aux
    \/ \E t \in running, updated \in BOOLEAN :
          FocusUpdateReply(t, updated) /\ UNCHANGED aux
    \/ \E i \in Ids, n \in Names : HandleUpdateSessionName(i, n) /\ Renamed(i, n)
    \/ \E i \in DOMAIN dbOps, updated \in BOOLEAN :
          UpdateSessionReply(i, updated) /\ UNCHANGED aux

Spec == InitLoaded /\ [][Next]_vars

\* C1: no two sessions of the registry have the same non-absent windowId
C1_WindowIdUnique == \A w \in WinIds : Cardinality(BoundTo(w)) <= 1
\* the step is a run of handleWindowRemoved(w, true, ...): a tab of the
\* closing window w goes, or the window itself
RemovalStep(w) ==
    /\ winState[w] = "closing"
    /\ winTabs'[w] # winTabs[w] \/ winState'[w] = "gone"

\* the step is a reconciliation pass that found the open window w
PassStep(w) ==
    /\ winState[w] = "open"
    /\ pendingGets'[w] < pendingGets[w]

\* C8: a durable session is renamed, its window is then closed, and a new
\* window with an identical tab set is then reconciled: after the pass the
\* session bound to the new window has the same id and the renamed name
C8_RenameSurvivesReopen ==
    [][\A w \in WinIds :
          (/\ PassStep(w)
           /\ aux.ren.gone
           /\ w # aux.ren.win
           /\ \E o \in Range(sessions) :
                 heap[o].id = aux.ren.id /\ heap[o].tabs = TabUrls(winTabs[w]))
          => \E o \in Range(sessions') :
                 /\ heap'[o].windowId = w
                 /\ heap'[o].id = aux.ren.id
                 /\ heap'[o].name = aux.ren.name]_vars

\* C9: when the window bound to a temporary session (no id) is removed, the
\* session leaves the registry and no session remains bound to the window id
C9_TemporaryRemovedWithWindow ==
    [][\A w \in WinIds, o \in Oids :
          (/\ RemovalStep(w)
           /\ o \in Range(sessions)
           /\ heap[o].id = 0
           /\ heap[o].windowId = w)
          => /\ o \notin Range(sessions')
             /\ \A p \in Range(sessions') : heap'[p].windowId # w]_vars

\* C10: when the window bound to a durable session is removed, the session
\* stays in the registry with id, name, tabs, sessionHash and history
\* unchanged and only its windowId becomes absent
C10_DurableUnboundOnRemoval ==
    [][\A w \in WinIds, o \in Oids :
          (/\ RemovalStep(w)
           /\ o \in Range(sessions)
           /\ heap[o].id # 0
           /\ heap[o].windowId = w)
          => /\ o \in Range(sessions')
             /\ heap'[o] = [heap[o] EXCEPT !.windowId = 0]]_vars

(***************************************************************************)
(* The window matcher with the save command: windows open and close, the   *)
(* user saves a window under a name, the gateway answers.  aux.match       *)
(* records the last pass that found an unbound durable session with the    *)
(* hash of the window: the window, the session and the number of unnamed   *)
(* temporary sessions bound to the window before the pass.                 *)
(***************************************************************************)
WindowHash(w) == GenerateSessionHash(TabUrls(winTabs[w]))

\* session o is durable, unbound and has the hash of window w
DurableUnboundMatch(o, w) ==
    /\ o \in Range(sessions)
    /\ heap[o].id # 0
    /\ heap[o].windowId = 0
    /\ heap[o].sessionHash = WindowHash(w)

UnnamedTemps(w) ==
    {x \in Range(sessions) :
        heap[x].id = 0 /\ heap[x].windowId = w /\ ~Truthy(heap[x].name)}

\* the matcher runs for window w and picks session o
MatcherPicks(o, w) ==
    /\ DurableUnboundMatch(o, w)
    /\ w \notin closedWindowIds
    /\ \A p \in BoundTo(w) : heap[p].id = 0
    /\ GetSessionBySessionHash(Service, WindowHash(w), TRUE) = o

Observed(w, found) ==
    aux' = IF found /\ winState[w] = "open" /\ \E o \in Oids : MatcherPicks(o, w)
           THEN [aux EXCEPT !.match =
                    [win |-> w,
                     oid |-> CHOOSE o \in Oids : MatcherPicks(o, w),
                     temps |-> Cardinality(UnnamedTemps(w))]]
           ELSE aux

NextMatch ==
    \/ \E urls \in {<<UrlA>>, <<UrlB>>} : HostOpenWindow(urls) /\ UNCHANGED aux
    \/ \E w \in WinIds, k \in 1..MaxTabs : TabUpdatedComplete(w, k) /\ UNCHANGED aux
    \/ \E w \in WinIds : HostCloseWindow(w) /\ UNCHANGED aux
    \/ \E w \in WinIds : TabRemovedClosing(w) /\ UNCHANGED aux
    \/ \E w \in WinIds : WindowRemoved(w) /\ UNCHANGED aux
    \/ \E w \in WinIds : TimerFire(w) /\ UNCHANGED aux
    \/ \E w \in WinIds, found \in BOOLEAN : WindowGetReply(w, found) /\ Observed(w, found)
    \/ \E w \in WinIds, n \in Names : HandleSaveNewSession(w, n) /\ UNCHANGED aux
    \/ \E i \in DOMAIN dbOps, saved \in BOOLEAN :
          CreateSessionReply(i, saved) /\ UNCHANGED aux
    \/ \E i \in DOMAIN dbOps, updated \in BOOLEAN :
          UpdateSessionReply(i, updated) /\ UNCHANGED aux

SpecMatch == InitLoaded /\ [][NextMatch]_vars

C11_ClosedWindowNeverBound ==
    \A w \in closedWindowIds : BoundTo(w) = {}


(***************************************************************************)
(* Names under focus events.                                               *)
(***************************************************************************)
\* nothing of the service is pending: no task, no gateway call
Quiet == running = {} /\ queue = <<>> /\ dbOps = <<>>

\* C12: a rename of a durable session was accepted and stored, and a focus
\* task of the session has completed after it: once nothing is pending, the
\* name in memory and the stored name are both the renamed name
C12_RenameSurvivesFocus ==
    LET session == GetSessionBySessionId(Service, aux.ren.id)
    IN  (/\ aux.ren.id # 0
         /\ aux.ren.written
         /\ aux.ren.focused
         /\ Quiet
         /\ session # 0
         /\ store[aux.ren.id].present)
        => /\ heap[session].name = aux.ren.name
           /\ store[aux.ren.id].name = aux.ren.name

\* the focus task with ticket k ends in this step, its session still in the
\* registry
Completes(k, t) ==
    /\ t.ticket = k
    /\ finished[k] = "none"
    /\ finished'[k] # "none"
    /\ t.oid \in Range(sessions')

\* C13: a focus task found the name in memory empty and a non-empty name in
\* the stored record, and the session was not renamed since: when the task
\* completes the name in memory is the stored name it read, and the record
\* the task has written holds that name too
C13_EmptyNameAdoptsStored ==
    [][\A k \in 1..MaxTasks : \A t \in running :
          (Completes(k, t) /\ aux.adopt[k] # "")
          => /\ heap'[t.oid].name = aux.adopt[k]
             /\ finished'[k] = "done" => store'[t.id].name = aux.adopt[k]]_vars

\* a focus task that adopted the stored name has completed
C13_Witness ==
    \E k \in 1..MaxTasks : \E o \in Range(sessions) :
        /\ aux.adopt[k] # ""
        /\ finished[k] = "done"
        /\ heap[o].id # 0
        /\ store[heap[o].id].present
        /\ heap[o].name = aux.adopt[k]
        /\ store[heap[o].id].name = aux.adopt[k]

(***************************************************************************)
(* Names under hash matches.                                               *)
(***************************************************************************)
\* the step binds session o of the registry to window w and detaches the
\* temporary session x of that window
MatchDetaches(o, x, w) ==
    /\ o \in Range(sessions) /\ o \in Range(sessions')
    /\ heap[o].windowId # w
    /\ heap'[o].windowId = w
    /\ x \in Range(sessions) /\ x \notin Range(sessions')
    /\ heap[x].windowId = w
    /\ heap[x].id = 0

\* C14: when a pass binds a matched session to a window and detaches the
\* temporary session of that window, the matched session keeps its name if
\* it had one and takes the name of the temporary session otherwise
C14_MatchKeepsName ==
    [][\A w \in WinIds : \A o, x \in Oids :
          MatchDetaches(o, x, w)
          => heap'[o].name = IF Truthy(heap[o].name) THEN heap[o].name
                             ELSE heap[x].name]_vars

(***************************************************************************)
(* Creates of the gateway.                                                 *)
(***************************************************************************)
\* the createSession calls in flight for the session object o
CreatesInFlight(o) ==
    {i \in DOMAIN dbOps : dbOps[i].kind = "create" /\ dbOps[i].oid = o}

\* C15: a reconciliation pass issues no createSession for a session that has
\* one in flight or has its durable id, and at most one for any other session
C15_CreateOnce ==
    [][\A w \in WinIds : PassStep(w) =>
          \A o \in Oids :
              Cardinality(CreatesInFlight(o)') <=
                  IF CreatesInFlight(o) # {} THEN Cardinality(CreatesInFlight(o))
                  ELSE IF heap[o].id # 0 THEN 0 ELSE 1]_vars

(***************************************************************************)
(* The history of a session under addUrlToSessionHistory and               *)
(* removeUrlFromSessionHistory, applied to the stored session of           *)
(* InitLoaded: the tabs of the session are set as a pass sets them, URLs   *)
(* are recorded as closed and as opened again.  aux.closed is the URL of   *)
(* the last step if that step recorded it as closed, with the place its    *)
(* cleaned URL had in the history before.                                  *)
(***************************************************************************)
\* URLs of two pages, plain, with a fragment and with a query
HistoryUrls ==
    {UrlA, UrlB, UrlA \o HashChar \o UrlB, UrlA \o QueryChar \o UrlB,
     UrlB \o HashChar \o UrlA}

HistorySession == sessions[1]

\* addUrlToSessionHistory passes its two early returns
Records(st, session, newUrl) ==
    /\ Len(CleanUrl(newUrl)) # 0
    /\ Len(SelectSeq(st.heap[session].tabs,
                     LAMBDA u : CleanUrl(u) = CleanUrl(newUrl))) = 1

\* session.tabs = curWindow.tabs
SetTabs(tabs) ==
    /\ heap' = [heap EXCEPT ![HistorySession].tabs = tabs,
                            ![HistorySession].sessionHash = GenerateSessionHash(tabs)]
    /\ UNCHANGED <<sessions, closedWindowIds, sessionUpdateTimers, pendingGets,
                   historyQueue, dbOps, store, nextId, pendingLoads, tabHistoryUrlMap>>
    /\ UNCHANGED hostVars
    /\ UNCHANGED queueVars

AddClosed(newUrl) ==
    /\ heap' = AddUrlToSessionHistory(Service, HistorySession, newUrl).heap
    /\ UNCHANGED <<sessions, closedWindowIds, sessionUpdateTimers, pendingGets,
                   historyQueue, dbOps, store, nextId, pendingLoads, tabHistoryUrlMap>>
    /\ UNCHANGED hostVars
    /\ UNCHANGED queueVars

RemoveOpened(newUrl) ==
    /\ heap' = RemoveUrlFromSessionHistory(Service, HistorySession, newUrl).heap
    /\ UNCHANGED <<sessions, closedWindowIds, sessionUpdateTimers, pendingGets,
                   historyQueue, dbOps, store, nextId, pendingLoads, tabHistoryUrlMap>>
    /\ UNCHANGED hostVars
    /\ UNCHANGED queueVars

Closed(newUrl) ==
    aux' = [aux EXCEPT !.closed =
               IF Records(Service, HistorySession, newUrl)
               THEN [url |-> newUrl,
                     had |-> FirstWithCleanUrl(heap[HistorySession].history,
                                               CleanUrl(newUrl))]
               ELSE [url |-> NoUrl, had |-> 0]]

NotClosed == aux' = [aux EXCEPT !.closed = [url |-> NoUrl, had |-> 0]]

NextHistory ==
    \/ \E u \in HistoryUrls : SetTabs(<<u>>) /\ NotClosed
    \/ \E u, v \in HistoryUrls : SetTabs(<<u, v>>) /\ NotClosed
    \/ \E u \in HistoryUrls : AddClosed(u) /\ Closed(u)
    \/ \E u \in HistoryUrls : RemoveOpened(u) /\ NotClosed

SpecHistory == InitLoaded /\ [][NextHistory]_vars

\* no two entries of the history have the same cleaned URL
NoDuplicates(history) ==
    \A i, j \in 1..Len(history) :
        CleanUrl(history[i]) = CleanUrl(history[j]) => i = j

\* C17: no two entries of a session's history have the same cleaned URL, and
\* a URL that has just been recorded as closed is the first entry, whether or
\* not an entry for its cleaned URL was there before
C17_OneEntryPerCleanUrl ==
    /\ \A o \in Range(sessions) : NoDuplicates(heap[o].history)
    /\ aux.closed.url # NoUrl
       => /\ Len(heap[HistorySession].history) >= 1
          /\ CleanUrl(heap[HistorySession].history[1]) = CleanUrl(aux.closed.url)

\* a URL was recorded as closed whose cleaned URL had an entry behind the
\* first one: that entry is gone and the closed tab is first
C17_Witness ==
    /\ aux.closed.url # NoUrl
    /\ aux.closed.had > 1
    /\ Len(heap[HistorySession].history) = 2
    /\ CleanUrl(heap[HistorySession].history[1]) = CleanUrl(aux.closed.url)
    /\ CleanUrl(heap[HistorySession].history[2]) # CleanUrl(aux.closed.url)

(***************************************************************************)
(* The history of a session filled to its cap: pages with URLs of their    *)
(* own are opened and closed one after the other, MaxOver more of them     *)
(* than the history holds; the page closed last may be opened again.       *)
(***************************************************************************)
Page(n) == <<HistoryCap + n>>

\* the page after the one closed last
NextPage ==
    IF heap[HistorySession].history = <<>> THEN Page(1)
    ELSE Page(heap[HistorySession].history[1][1] - HistoryCap + 1)

NextHistoryCap ==
    \/ /\ NextPage[1] <= HistoryCap + HistoryCap + MaxOver
       /\ SetTabs(<<NextPage>>)
       /\ UNCHANGED aux
    \/ /\ heap[HistorySession].history # <<>>
       /\ SetTabs(<<heap[HistorySession].history[1]>>)
       /\ UNCHANGED aux
    \/ AddClosed(heap[HistorySession].tabs[1]) /\ UNCHANGED aux
    \/ /\ heap[HistorySession].history # <<>>
       /\ heap[HistorySession].tabs = <<heap[HistorySession].history[1]>>
       /\ RemoveOpened(heap[HistorySession].tabs[1])
       /\ UNCHANGED aux

SpecHistoryCap == InitLoaded /\ [][NextHistoryCap]_vars

\* C16: the history of a session never has more than 200 entries
C16_HistoryCapped ==
    \A o \in Range(sessions) : Len(heap[o].history) <= HistoryCap

\* the history is full and its oldest entries have been cut: the first pages
\* closed are no longer in it
C16_Witness ==
    /\ Len(heap[HistorySession].history) = HistoryCap
    /\ heap[HistorySession].history[1] = Page(HistoryCap + MaxOver)
    /\ heap[HistorySession].history[HistoryCap] = Page(MaxOver + 1)

(***************************************************************************)
(* One window of two tabs whose tabs load, change their URL and are        *)
(* closed, with the passes that follow.                                    *)
(***************************************************************************)
NextTabs ==
    \/ /\ \A w \in WinIds : winState[w] = "none"
       /\ HostOpenWindow(<<UrlA, UrlB>>)
       /\ UNCHANGED aux
    \/ \E w \in WinIds, k \in 1..MaxTabs : TabUpdatedComplete(w, k) /\ UNCHANGED aux
    \/ \E w \in WinIds, k \in 1..MaxTabs, url \in Urls :
          TabUpdatedUrl(w, k, url) /\ UNCHANGED aux
    \/ \E w \in WinIds, k \in 1..MaxTabs : TabRemoved(w, k) /\ UNCHANGED aux
    \/ \E w \in WinIds : TimerFire(w) /\ UNCHANGED aux
    \/ \E w \in WinIds : WindowGetReply(w, TRUE) /\ UNCHANGED aux

SpecTabs == InitFresh /\ [][NextTabs]_vars

\* an entry of the history of session o has the cleaned URL of one of its tabs
OpenInHistory(h, o) ==
    \E i \in 1..Len(h[o].history), k \in 1..Len(h[o].tabs) :
        CleanUrl(h[o].history[i]) = CleanUrl(h[o].tabs[k])

\* C18: after a reconciliation pass for a window, no entry of the history of
\* the window's session has the cleaned URL of a tab of that session
C18_HistoryHasNoOpenTab ==
    [][\A w \in WinIds : PassStep(w) =>
          \A o \in Range(sessions') :
              heap'[o].windowId = w => ~OpenInHistory(heap', o)]_vars

(***************************************************************************)
(* _cleanUrl and generateSessionHash on the URL of the one tab of the      *)
(* stored session of InitLoaded.  The URL grows piece by piece: a page     *)
(* name, '#', '?', 'suspended.html', 'uri='; after each piece the session  *)
(* takes the tab and its hash as a pass does.  aux.pieces counts the       *)
(* pieces.                                                                 *)
(***************************************************************************)
UrlPieces == {UrlA, UrlB, HashChar, QueryChar, SuspendedMarker, UriMarker}

\* session.tabs = curWindow.tabs; session.sessionHash = generateSessionHash(...)
Retab(piece) ==
    /\ aux.pieces < MaxPieces
    /\ aux' = [aux EXCEPT !.pieces = @ + 1]
    /\ heap' = [heap EXCEPT
                   ![HistorySession].tabs = <<@[1] \o piece>>,
                   ![HistorySession].sessionHash =
                       GenerateSessionHash(<<heap[HistorySession].tabs[1] \o piece>>)]
    /\ UNCHANGED <<sessions, closedWindowIds, sessionUpdateTimers, pendingGets,
                   historyQueue, dbOps, store, nextId, pendingLoads, tabHistoryUrlMap>>
    /\ UNCHANGED hostVars
    /\ UNCHANGED queueVars

NextClean == \E piece \in UrlPieces : Retab(piece)

SpecClean == InitLoaded /\ [][NextClean]_vars

\* C19: the hash of a session is the hash of its tabs whenever it is computed
\* again, and cleaning the cleaned URL of a tab changes nothing
C19_HashDeterministicCleanIdempotent ==
    \A o \in Range(sessions) :
        /\ heap[o].sessionHash = GenerateSessionHash(heap[o].tabs)
        /\ \A k \in 1..Len(heap[o].tabs) :
              CleanUrl(CleanUrl(heap[o].tabs[k])) = CleanUrl(heap[o].tabs[k])

(***************************************************************************)
(* Matching under tab order.  The service starts with one stored session   *)
(* of two tabs and no window open; windows open with the two tabs in       *)
(* either order.                                                           *)
(***************************************************************************)
\* initialiseSpaces with one stored session and no window
InitStored ==
    /\ winState = [w \in WinIds |-> "none"]
    /\ winTabs = [w \in WinIds |-> <<>>]
    /\ heap = [o \in Oids |->
                 IF o = 1
                 THEN [id |-> 1, windowId |-> 0, name |-> "n1", tabs |-> <<UrlA, UrlB>>,
                       sessionHash |-> GenerateSessionHash(<<UrlA, UrlB>>), history |-> <<>>]
                 ELSE Blank]
    /\ sessions = <<1>>
    /\ closedWindowIds = {}
    /\ sessionUpdateTimers = [w \in WinIds |-> 0]
    /\ pendingGets = [w \in WinIds |-> 0]
    /\ historyQueue = <<>>
    /\ queue = <<>>
    /\ isProcessing = FALSE
    /\ running = {}
    /\ nextTicket = 1
    /\ started = <<>>
    /\ finished = [k \in 1..MaxTasks |-> "none"]
    /\ dbOps = <<>>
    /\ store = [i \in Ids |-> IF i = 1 THEN [present |-> TRUE, name |-> "n1"] ELSE NoRec]
    /\ nextId = 2
    /\ pendingLoads = {}
    /\ tabHistoryUrlMap = [t \in TabIds |-> NoUrl]
    /\ aux = NoAux

NextOrder ==
    \/ \E urls \in {<<UrlA, UrlB>>, <<UrlB, UrlA>>} : HostOpenWindow(urls) /\ UNCHANGED aux
    \/ \E w \in WinIds, k \in 1..MaxTabs : TabUpdatedComplete(w, k) /\ UNCHANGED aux
    \/ \E w \in WinIds : TabMoved(w) /\ UNCHANGED aux
    \/ \E w \in WinIds : TimerFire(w) /\ UNCHANGED aux
    \/ \E w \in WinIds : WindowGetReply(w, TRUE) /\ UNCHANGED aux
    \/ \E i \in DOMAIN dbOps, updated \in BOOLEAN :
          UpdateSessionReply(i, updated) /\ UNCHANGED aux

SpecOrder == InitStored /\ [][NextOrder]_vars

\* the number of places of the tab list at which the URL is
Count(tabs, url) == Cardinality({k \in 1..Len(tabs) : tabs[k] = url})

\* the two tab lists have the same URLs, in any order
Reordering(tabs, other) ==
    /\ Len(tabs) = Len(other)
    /\ \A k \in 1..Len(tabs) : Count(tabs, tabs[k]) = Count(other, tabs[k])

\* session o is the one durable unbound session whose tabs are those of
\* window w in some order, and nothing but temporary sessions is bound to w
OnlyReordering(o, w) ==
    /\ w \notin closedWindowIds
    /\ \A p \in BoundTo(w) : heap[p].id = 0
    /\ \A p \in Range(sessions) :
          (/\ heap[p].id # 0
           /\ heap[p].windowId = 0
           /\ Reordering(heap[p].tabs, TabUrls(winTabs[w]))) <=> p = o

\* C20: generateSessionHash gives the tabs of a window and any reordering of
\* them the same hash, so a pass for a window whose tabs are a reordering of
\* the tabs of an unbound durable session binds that session to the window
C20_MatchIgnoresTabOrder ==
    [][\A w \in WinIds, o \in Oids :
          (PassStep(w) /\ OnlyReordering(o, w))
          => /\ GenerateSessionHash(heap[o].tabs) = WindowHash(w)
             /\ heap'[o].windowId = w]_vars

(***************************************************************************)
(* The range of generateSessionHash.  The URL of the tab of the stored     *)
(* session grows by one character at a time, as in SpecClean, from the     *)
(* characters 'a', 'A', 'g', 'X' and 'q'.                                  *)
(***************************************************************************)
HashPieces == {UrlA, <<65>>, <<103>>, <<88>>, <<113>>}

NextHash == \E piece \in HashPieces : Retab(piece)

SpecHash == InitLoaded /\ [][NextHash]_vars

\* the 32-bit value is at most 2^31 - 1
IsInt32(a) == a.hi \in 0..(SignLimb - 1) /\ a.lo \in 0..(Limb - 1)

\* C21: the hash of every session is an integer h with 0 <= h <= 2^31 - 1
C21_HashIsNonNegativeInt32 ==
    \A o \in Range(sessions) : IsInt32(heap[o].sessionHash)

NoMatchFor(w) ==
    /\ w \notin closedWindowIds
    /\ Len(winTabs[w]) >= 1
    /\ \/ GetSessionByWindowId(Service, w) = 0
       \/ \A p \in BoundTo(w) : heap[p].id = 0
    /\ GetSessionBySessionHash(Service, WindowHash(w), TRUE) = 0

\* the step adds one temporary session bound to w at the end of the registry
AddsTemporary(w) ==
    /\ Len(sessions') = Len(sessions) + 1
    /\ SubSeq(sessions', 1, Len(sessions)) = sessions
    /\ heap'[sessions'[Len(sessions')]].windowId = w
    /\ heap'[sessions'[Len(sessions')]].id = 0

\* C23: when no unbound session has the hash of the window, the pass adds a
\* temporary session for the window if no session is bound to it, and leaves
\* the sessions of the registry as they are if one or more are bound to it
C23_TemporaryOnlyForUnboundWindow ==
    [][\A w \in WinIds :
          (PassStep(w) /\ NoMatchFor(w))
          => IF BoundTo(w) = {} THEN AddsTemporary(w)
             ELSE sessions' = sessions]_vars

(***************************************************************************)
(* The matcher when several sessions are bound to the window.              *)
(***************************************************************************)
\* the first unbound session of the registry with the hash of window w, or 0
HashMatch(w) ==
    GetSessionBySessionHash(Service, GenerateSessionHash(TabUrls(winTabs[w])), TRUE)

\* a pass for window w reaches matchSessionToWindow while two or more
\* sessions are bound to the window
MatchAmongSeveral(w) ==
    /\ winState[w] = "open"
    /\ w \notin closedWindowIds
    /\ Len(winTabs[w]) >= 1
    /\ ~FilterInternalWindows(TabUrls(winTabs[w]))
    /\ Cardinality(BoundTo(w)) >= 2
    /\ HashMatch(w) # 0

\* aux.rebound records the last such pass: the window, the session matched
\* and the sessions that were bound to the window
Rebound(w, found) ==
    aux' = IF found /\ MatchAmongSeveral(w)
           THEN [aux EXCEPT !.rebound = [win |-> w, oid |-> HashMatch(w),
                                         bound |-> BoundTo(w)]]
           ELSE aux

NextRebind ==
    \/ HostOpenWindow(<<UrlA>>) /\ UNCHANGED aux
    \/ \E w \in WinIds, k \in 1..MaxTabs : TabUpdatedComplete(w, k) /\ UNCHANGED aux
    \/ \E w \in WinIds : HostCloseWindow(w) /\ UNCHANGED aux
    \/ \E w \in WinIds : TabRemovedClosing(w) /\ UNCHANGED aux
    \/ \E w \in WinIds : WindowRemoved(w) /\ UNCHANGED aux
    \/ \E w \in WinIds : TimerFire(w) /\ UNCHANGED aux
    \/ \E w \in WinIds, found \in BOOLEAN : WindowGetReply(w, found) /\ Rebound(w, found)
    \/ \E w \in WinIds : HandleWindowFocussed(w) /\ UNCHANGED aux
    \/ \E t \in running : FocusFetchReply(t) /\ UNCHANGED aux
    \/ \E t \in running, updated \in BOOLEAN :
          FocusUpdateReply(t, updated) /\ UNCHANGED aux

SpecRebind == InitLoaded /\ [][NextRebind]_vars

Answered(i, confirmed) ==
    aux' = IF confirmed
           THEN [aux EXCEPT !.del.confirmed = @ \cup {dbOps[i].id}]
           ELSE [aux EXCEPT !.del.refused = @ \cup {dbOps[i].id}]

NextDelete ==
    \/ HostOpenWindow(<<UrlA>>) /\ UNCHANGED aux
    \/ \E w \in WinIds, k \in 1..MaxTabs : TabUpdatedComplete(w, k) /\ UNCHANGED aux
    \/ \E w \in WinIds : HostCloseWindow(w) /\ UNCHANGED aux
    \/ \E w \in WinIds : TabRemovedClosing(w) /\ UNCHANGED aux
    \/ \E w \in WinIds : WindowRemoved(w) /\ UNCHANGED aux
    \/ \E w \in WinIds : TimerFire(w) /\ UNCHANGED aux
    \/ \E w \in WinIds, found \in BOOLEAN : WindowGetReply(w, found) /\ UNCHANGED aux
    \/ \E id \in Ids : AskDelete(id) /\ UNCHANGED aux
    \/ \E i \in DOMAIN dbOps, confirmed \in BOOLEAN :
          ConfirmReply(i, confirmed) /\ Answered(i, confirmed)
    \/ \E i \in DOMAIN dbOps : RemoveSessionReply(i) /\ UNCHANGED aux
    \/ \E i \in DOMAIN dbOps, updated \in BOOLEAN :
          UpdateSessionReply(i, updated) /\ UNCHANGED aux

SpecDelete == InitLoaded /\ [][NextDelete]_vars

\* the ids whose removal is requested of the gateway
RemovalsRequested(ops) == {ops[i].id : i \in {j \in DOMAIN ops : ops[j].kind = "remove"}}

DurableIds(h, regs) == {h[o].id : o \in Range(regs)} \ {0}

\* C25: the removal of a durable record is requested, and the session leaves
\* the registry, only after the user confirmed the delete command; when the
\* user refuses, the command answers false and the registry and the store
\* are left as they are
C25_DeleteAfterConfirmation ==
    [][/\ \A id \in RemovalsRequested(dbOps') \ RemovalsRequested(dbOps) :
             id \in aux'.del.confirmed
       /\ \A id \in DurableIds(heap, sessions) \ DurableIds(heap', sessions') :
             id \in aux.del.confirmed
       /\ \A i \in DOMAIN dbOps :
             ConfirmReply(i, FALSE)
             => /\ sessions' = sessions
                /\ heap' = heap
                /\ store' = store
                /\ dbOps' = RemoveAt(dbOps, i)
                /\ dbOps[i].id \in aux'.del.refused]_vars

C25_Witness ==
    /\ 1 \in aux.del.refused
    /\ 1 \in aux.del.confirmed
    /\ GetSessionBySessionId(Service, 1) = 0
    /\ ~store[1].present

(***************************************************************************)
(* Focus events that start no task.  aux.idle records the kinds of focus   *)
(* event seen: "invalid" (a window id <= 0), "unbound" (no session bound   *)
(* to the window), "temporary" (temporary sessions only) and "durable".    *)
(***************************************************************************)
\* chrome.windows.WINDOW_ID_NONE is -1
FocusIds == WinIds \cup {-1, 0}

NoDurableSession(w) == w <= 0 \/ \A o \in BoundTo(w) : heap[o].id = 0

FocusKind(w) ==
    IF w <= 0 THEN "invalid"
    ELSE IF BoundTo(w) = {} THEN "unbound"
    ELSE IF NoDurableSession(w) THEN "temporary"
    ELSE "durable"

Idle(w) == aux' = [aux EXCEPT !.idle = @ \cup {FocusKind(w)}]

NextFocus ==
    \/ HostOpenWindow(<<UrlA>>) /\ UNCHANGED aux
    \/ HostOpenWindow(<<UrlB>>) /\ UNCHANGED aux
    \/ \E w \in WinIds, k \in 1..MaxTabs : TabUpdatedComplete(w, k) /\ UNCHANGED aux
    \/ \E w \in WinIds : TimerFire(w) /\ UNCHANGED aux
    \/ \E w \in WinIds : WindowGetReply(w, TRUE) /\ UNCHANGED aux
    \/ \E w \in FocusIds : HandleWindowFocussed(w) /\ Idle(w)
    \/ \E t \in running : FocusFetchReply(t) /\ UNCHANGED aux
    \/ \E t \in running, updated \in BOOLEAN :
          FocusUpdateReply(t, updated) /\ UNCHANGED aux

SpecFocus == InitLoaded /\ [][NextFocus]_vars

\* C26: a focus event for a window id <= 0, for a window with no session
\* bound to it or for a window bound to a temporary session pushes nothing
\* onto the update queue, starts no task, makes no gateway call and leaves
\* the registry and its sessions as they are
C26_FocusWithoutDurableSessionIsIdle ==
    [][\A w \in FocusIds :
          (HandleWindowFocussed(w) /\ NoDurableSession(w))
          => /\ UNCHANGED <<queue, running, isProcessing, started, nextTicket>>
             /\ UNCHANGED <<dbOps, store>>
             /\ UNCHANGED <<sessions, heap>>]_vars

C26_Witness ==
    /\ {"invalid", "unbound", "temporary"} \subseteq aux.idle
    /\ "durable" \notin aux.idle
    /\ nextTicket = 1
    /\ \E o \in Range(sessions) : heap[o].id = 0 /\ heap[o].windowId # 0

(***************************************************************************)
(* A pass whose window the host no longer has.                             *)
(***************************************************************************)
\* the tabs and the history of the sessions of the registry
TabsAndHistory(h, regs) ==
    {[oid |-> o, tabs |-> h[o].tabs, history |-> h[o].history] : o \in Range(regs)}

\* C27: when the host reports the window as not found to a debounced pass,
\* then after the pass no session is bound to the window, the tabs and the
\* history of every session left in the registry are as before and no
\* gateway call is issued
C27_NotFoundUnbinds ==
    [][\A w \in WinIds :
          WindowGetReply(w, FALSE)
          => /\ \A o \in Range(sessions') : heap'[o].windowId # w
             /\ TabsAndHistory(heap', sessions') \subseteq TabsAndHistory(heap, sessions)
             /\ dbOps' = dbOps]_vars

(***************************************************************************)
(* Windows of two tabs that close tab by tab, with one stored session of   *)
(* the same two tabs.  aux.shut records what happened to a window marked   *)
(* as closed: "tab" for a tab removal reported with isWindowClosing that   *)
(* left a tab in the window, "pass" for a pass the host answered with the  *)
(* tabs left.                                                              *)
(***************************************************************************)
\* chrome.windows.get(w) would succeed
HostHasWindow(w) == winState[w] \in {"open", "closing"} /\ Len(winTabs[w]) >= 1

ShutTab(w) ==
    aux' = IF Len(winTabs[w]) >= 2 THEN [aux EXCEPT !.shut = @ \cup {"tab"}] ELSE aux

ShutPass(w, found) ==
    aux' = IF found /\ w \in closedWindowIds
           THEN [aux EXCEPT !.shut = @ \cup {"pass"}]
           ELSE aux

NextClose ==
    \/ HostOpenWindow(<<UrlA, UrlB>>) /\ UNCHANGED aux
    \/ \E w \in WinIds, k \in 1..MaxTabs : TabUpdatedComplete(w, k) /\ UNCHANGED aux
    \/ \E w \in WinIds : HostCloseWindow(w) /\ UNCHANGED aux
    \/ \E w \in WinIds : TabRemovedClosing(w) /\ ShutTab(w)
    \/ \E w \in WinIds : WindowRemoved(w) /\ UNCHANGED aux
    \/ \E w \in WinIds : TimerFire(w) /\ UNCHANGED aux
    \/ \E w \in WinIds, found \in BOOLEAN : WindowGetReply(w, found) /\ ShutPass(w, found)
    \/ \E i \in DOMAIN dbOps, updated \in BOOLEAN :
          UpdateSessionReply(i, updated) /\ UNCHANGED aux

SpecClose == InitStored /\ [][NextClose]_vars

\* C28: a removal notification for window w takes the session of w from the
\* window only if the host no longer has the window; if the host still has
\* it when the notification is handled, the sessions bound to w stay bound
C28_UnbindOnlyWhenWindowGone ==
    [][\A w \in WinIds :
          (RemovalStep(w) /\ HostHasWindow(w)')
          => \A o \in BoundTo(w) :
                o \in Range(sessions') /\ heap'[o].windowId = w]_vars

\* the tabs, the hash and the history of the sessions of the registry
Contents(h, regs) ==
    {[oid |-> o, tabs |-> h[o].tabs, sessionHash |-> h[o].sessionHash,
      history |-> h[o].history] : o \in Range(regs)}

\* C29: a tab removal reported with isWindowClosing, and a pass for a window
\* that is in closedWindowIds when the host answers, change the tabs, the
\* hash and the history of no session and issue no gateway call
C29_ClosingWindowNotSaved ==
    [][\A w \in WinIds :
          (\/ TabRemovedClosing(w)
           \/ w \in closedWindowIds /\ \E found \in BOOLEAN : WindowGetReply(w, found))
          => /\ Contents(heap', sessions') \subseteq Contents(heap, sessions)
             /\ dbOps' = dbOps]_vars

C29_Witness ==
    /\ aux.shut = {"tab", "pass"}
    /\ \E w \in closedWindowIds : Len(winTabs[w]) = 1
    /\ heap[1].tabs = <<UrlA, UrlB>>
    /\ heap[1].windowId = 0

(***************************************************************************)
(* A pass for a window bound to a durable session.                         *)
(***************************************************************************)
\* the durable sessions bound to window w
DurableOf(w) == {o \in BoundTo(w) : heap[o].id # 0}

\* an updateSession call for session o is issued by the step
Persisted(o) ==
    /\ Len(dbOps') = Len(dbOps) + 1
    /\ dbOps'[Len(dbOps')].kind = "update"
    /\ dbOps'[Len(dbOps')].id = heap[o].id

\* C30: a pass for a window bound to a durable session leaves the registry
\* and every binding as they are, gives the session the tabs and the hash of
\* the window and persists it
C30_DurablePassKeepsBinding ==
    [][\A w \in WinIds :
          (/\ PassStep(w)
           /\ w \notin closedWindowIds
           /\ ~FilterInternalWindows(TabUrls(winTabs[w]))
           /\ DurableOf(w) # {})
          => /\ sessions' = sessions
             /\ \A p \in Range(sessions) : heap'[p].windowId = heap[p].windowId
             /\ \A o \in DurableOf(w) :
                   /\ heap'[o].tabs = TabUrls(winTabs[w])
                   /\ heap'[o].sessionHash = WindowHash(w)
                   /\ Persisted(o)]_vars

(***************************************************************************)
(* The matcher and sessions that are bound.                                *)
(***************************************************************************)
\* session o is bound to an open window other than w
BoundElsewhere(o, w) ==
    /\ heap[o].windowId \notin {0, w}
    /\ winState[heap[o].windowId] = "open"

\* C31: a pass for window w leaves every session that is bound to another
\* open window bound to that window: the matcher binds unbound sessions only
C31_MatcherBindsUnboundOnly ==
    [][\A w \in WinIds, o \in Range(sessions) :
          (PassStep(w) /\ BoundElsewhere(o, w))
          => /\ o \in Range(sessions')
             /\ heap'[o].windowId = heap[o].windowId]_vars

\* two open windows of the same tabs: the stored session is bound to one, a
\* temporary session with the same hash to the other
C31_Witness ==
    \E o \in Range(sessions), x \in Range(sessions) :
        /\ heap[o].id # 0
        /\ heap[x].id = 0
        /\ heap[o].windowId # 0
        /\ heap[x].windowId \notin {0, heap[o].windowId}
        /\ winState[heap[o].windowId] = "open"
        /\ winState[heap[x].windowId] = "open"
        /\ heap[x].sessionHash = heap[o].sessionHash
        /\ WindowHash(heap[o].windowId) = WindowHash(heap[x].windowId)

(***************************************************************************)
(* Sessions saved from a link: windows open, debounced passes run, the     *)
(* user adds a link to a new session, the gateway answers createSession.   *)
(***************************************************************************)
NextLink ==
    \/ HostOpenWindow(<<UrlA>>) /\ UNCHANGED aux
    \/ \E w \in WinIds, k \in 1..MaxTabs : TabUpdatedComplete(w, k) /\ UNCHANGED aux
    \/ \E w \in WinIds : TimerFire(w) /\ UNCHANGED aux
    \/ \E w \in WinIds : WindowGetReply(w, TRUE) /\ UNCHANGED aux
    \/ \E n \in Names \ {""} :
          HandleAddLinkToNewSession(UrlA, n) /\ UNCHANGED aux
    \/ \E i \in DOMAIN dbOps, saved \in BOOLEAN :
          CreateSessionReply(i, saved) /\ UNCHANGED aux
    \/ \E i \in DOMAIN dbOps, updated \in BOOLEAN :
          UpdateSessionReply(i, updated) /\ UNCHANGED aux

SpecLink == InitFresh /\ [][NextLink]_vars

\* C32: every session that a pass binds to its window by a hash match, that
\* is every session unbound before the pass and bound to the window after
\* it, is durable when it is bound
C32_MatchedSessionIsDurable ==
    [][\A w \in WinIds, o \in Range(sessions) :
          (/\ PassStep(w)
           /\ heap[o].windowId = 0
           /\ o \in Range(sessions')
           /\ heap'[o].windowId = w)
          => heap[o].id # 0]_vars

(***************************************************************************)
(* Naming the temporary session of a window: windows open and close,       *)
(* debounced passes run, the user saves a window under a name, the gateway *)
(* answers.  aux.named records the last save of a window that had a        *)
(* temporary session: the window, the session and the name.                *)
(***************************************************************************)
\* the session of window w when it is temporary, else 0
TemporaryOf(w) ==
    LET Temporary(session) ==
            IF session # 0 /\ heap[session].id = 0 THEN session ELSE 0
    IN  Temporary(GetSessionByWindowId(Service, w))

Named(w, sessionName) ==
    aux' = IF TemporaryOf(w) # 0
           THEN [aux EXCEPT !.named = [win |-> w, oid |-> TemporaryOf(w),
                                       name |-> sessionName]]
           ELSE aux

NextName ==
    \/ HostOpenWindow(<<UrlA>>) /\ UNCHANGED aux
    \/ \E w \in WinIds, k \in 1..MaxTabs : TabUpdatedComplete(w, k) /\ UNCHANGED aux
    \/ \E w \in WinIds : HostCloseWindow(w) /\ UNCHANGED aux
    \/ \E w \in WinIds : TabRemovedClosing(w) /\ UNCHANGED aux
    \/ \E w \in WinIds : WindowRemoved(w) /\ UNCHANGED aux
    \/ \E w \in WinIds : TimerFire(w) /\ UNCHANGED aux
    \/ \E w \in WinIds : WindowGetReply(w, TRUE) /\ UNCHANGED aux
    \/ \E w \in WinIds, n \in Names : HandleSaveNewSession(w, n) /\ Named(w, n)
    \/ \E i \in DOMAIN dbOps, saved \in BOOLEAN :
          CreateSessionReply(i, saved) /\ UNCHANGED aux
    \/ \E i \in DOMAIN dbOps, updated \in BOOLEAN :
          UpdateSessionReply(i, updated) /\ UNCHANGED aux

SpecName == InitLoaded /\ [][NextName]_vars

\* the registry entry of the temporary session of window w is the one that
\* is named: the registry keeps its length and the entry carries the name
ConvertsInPlace(w, sessionName) ==
    /\ Len(sessions') = Len(sessions)
    /\ TemporaryOf(w) \in Range(sessions')
    /\ heap'[TemporaryOf(w)].name = sessionName
    /\ heap'[TemporaryOf(w)].windowId = w

\* the create of the named session of an open window is answered with a
\* record
NamedCreateSucceeds(i) ==
    /\ CreateSessionReply(i, TRUE)
    /\ aux.named.oid # 0
    /\ dbOps[i].oid = aux.named.oid
    /\ dbOps[i].name = aux.named.name
    /\ winState[aux.named.win] = "open"

\* C33: naming a window that has a temporary session keeps the number of
\* registry entries and names that entry, and when createSession succeeds
\* for it while the window is open, exactly one session is bound to the
\* window, with the given name and the id the gateway returned
C33_NamingConvertsTemporary ==
    [][/\ \A w \in WinIds, n \in Names :
             (HandleSaveNewSession(w, n) /\ TemporaryOf(w) # 0)
             => ConvertsInPlace(w, n)
       /\ \A i \in DOMAIN dbOps :
             NamedCreateSucceeds(i)
             => \E o \in Range(sessions') :
                   /\ \A p \in Range(sessions') :
                         heap'[p].windowId = aux.named.win <=> p = o
                   /\ heap'[o].name = aux.named.name
                   /\ heap'[o].id = nextId]_vars

\* C34: when createSession succeeds for a saved session, a session with the
\* returned id is in the registry after the answer, so the new record has a
\* registry entry
C34_CreatedSessionInRegistry ==
    [][\A i \in DOMAIN dbOps :
          CreateSessionReply(i, TRUE)
          => \E o \in Range(sessions') : heap'[o].id = nextId]_vars

(***************************************************************************)
(* History items of several windows: windows of two tabs open, tabs load,  *)
(* navigate and close, debounced passes run.                               *)
(***************************************************************************)
NextItems ==
    \/ HostOpenWindow(<<UrlA, UrlB>>) /\ UNCHANGED aux
    \/ \E w \in WinIds, k \in 1..MaxTabs : TabUpdatedComplete(w, k) /\ UNCHANGED aux
    \/ \E w \in WinIds, k \in 1..MaxTabs : TabUpdatedUrl(w, k, UrlA) /\ UNCHANGED aux
    \/ \E w \in WinIds, k \in 1..MaxTabs : TabRemoved(w, k) /\ UNCHANGED aux
    \/ \E w \in WinIds : TimerFire(w) /\ UNCHANGED aux
    \/ \E w \in WinIds : WindowGetReply(w, TRUE) /\ UNCHANGED aux

SpecItems == InitFresh /\ [][NextItems]_vars

\* the history queue without the items of window w
ItemsOfOthers(w) == SelectSeq(historyQueue, LAMBDA item : item.windowId # w)

\* C35: a pass for window w that finds a session bound to w leaves the
\* history queue with exactly the items of the other windows, in their order
C35_PassDrainsOwnItemsOnly ==
    [][\A w \in WinIds :
          (/\ PassStep(w)
           /\ w \notin closedWindowIds
           /\ GetSessionByWindowId(Service, w) # 0)
          => historyQueue' = ItemsOfOthers(w)]_vars

\* in the history queue the close of a tab with url in window w is followed
\* by a navigation of a tab of w to url
ClosedThenOpened(w, url) ==
    \E i \in 1..Len(historyQueue), j \in 1..Len(historyQueue) :
        /\ i < j
        /\ historyQueue[i] = [url |-> url, windowId |-> w, action |-> "add"]
        /\ historyQueue[j] = [url |-> url, windowId |-> w, action |-> "remove"]

\* C36: the history items of a window are applied in the order of their
\* events: when a URL was closed and then opened again in window w before
\* the pass, the history of the session of w does not hold it after the pass
C36_HistoryItemsInEventOrder ==
    [][\A w \in WinIds, o \in Range(sessions), url \in Urls :
          (/\ PassStep(w)
           /\ w \notin closedWindowIds
           /\ GetSessionByWindowId(Service, w) = o
           /\ ClosedThenOpened(w, url)
           /\ o \in Range(sessions'))
          => \A k \in 1..Len(heap'[o].history) :
                CleanUrl(heap'[o].history[k]) # CleanUrl(url)]_vars

(***************************************************************************)
(* The completion callback of handleWindowEvent.                           *)
(***************************************************************************)
\* the number of times the chrome.windows.get callback of handleWindowEvent
\* invokes the completion callback before it returns
CallbacksNow(st, windowId, found, tabs) ==
    IF ~found THEN 0
    ELSE IF FilterInternalWindows(tabs) THEN 0
    ELSE IF windowId \in closedWindowIds THEN 0
    ELSE 1

\* the number of invocations of the completion callback that the pass hands
\* to saveNewSession, made when createSession is answered
CallbacksLater(st, windowId, found, tabs) ==
    LET Handed(session) ==
            IF session = 0 THEN 0
            ELSE IF st.heap[session].id # 0 THEN 0
            ELSE IF NonBlank(st.heap[session].name) THEN 1
            ELSE 0
    IN  IF ~found THEN 0
        ELSE IF FilterInternalWindows(tabs) THEN 0
        ELSE IF windowId \in closedWindowIds THEN 0
        ELSE Handed(GetSessionByWindowId(st, windowId))

\* C37: every pass that fires invokes its completion callback exactly once,
\* in every branch of handleWindowEvent
C37_PassCallsBackOnce ==
    [][\A w \in WinIds, found \in BOOLEAN :
          WindowGetReply(w, found)
          => CallbacksNow(Service, w, found, TabUrls(winTabs[w]))
             + CallbacksLater(Service, w, found, TabUrls(winTabs[w])) = 1]_vars

(***************************************************************************)
(* handleWindowRemoved for a window id that is already marked as closed.   *)
(***************************************************************************)
\* the number of times handleWindowRemoved invokes its callback: once more
\* at its start when the window id is in closedWindowIds, and once at its end
RemovedCallbacks(windowId) ==
    (IF windowId \in closedWindowIds THEN 1 ELSE 0) + 1

\* handleWindowRemoved(w, true, callback) runs for a window id that is in
\* closedWindowIds
RemovedAgain(w) ==
    /\ TabRemovedClosing(w) \/ WindowRemoved(w)
    /\ w \in closedWindowIds

\* C38: handleWindowRemoved for a window id already in closedWindowIds
\* invokes its callback exactly once and leaves the registry as it was
C38_RepeatedRemovalIgnored ==
    [][\A w \in WinIds :
          RemovedAgain(w)
          => /\ RemovedCallbacks(w) = 1
             /\ sessions' = sessions
             /\ \A o \in Range(sessions) : heap'[o] = heap[o]]_vars

(***************************************************************************)
(* Names in the registry: with one stored, unbound session the user        *)
(* restores backups of one space, renames sessions and adds links to new   *)
(* sessions; the overwrite question is answered either way and the gateway *)
(* answers.                                                                *)
(***************************************************************************)
BackupTabs == <<UrlA>>

NextNames ==
    \/ HandleRestoreFromBackup("n1", BackupTabs) /\ UNCHANGED aux
    \/ \E i \in DOMAIN dbOps, confirmed \in BOOLEAN :
          OverwriteReply(i, confirmed, BackupTabs) /\ UNCHANGED aux
    \/ \E i \in Ids, n \in Names : HandleUpdateSessionName(i, n) /\ UNCHANGED aux
    \/ HandleAddLinkToNewSession(UrlB, "n2") /\ UNCHANGED aux
    \/ \E i \in DOMAIN dbOps, saved \in BOOLEAN :
          CreateSessionReply(i, saved) /\ UNCHANGED aux
    \/ \E i \in DOMAIN dbOps, updated \in BOOLEAN :
          UpdateSessionReply(i, updated) /\ UNCHANGED aux
    \/ \E i \in DOMAIN dbOps : RemoveSessionReply(i) /\ UNCHANGED aux

SpecNames == InitStored /\ [][NextNames]_vars

\* C39: once every question and every gateway call of the commands is
\* answered, no two sessions of the registry have the same non-empty name
C39_NamesUnique ==
    dbOps = <<>>
    => \A i \in 1..Len(sessions), j \in 1..Len(sessions) :
          (i # j /\ Truthy(heap[sessions[i]].name))
          => heap[sessions[i]].name # heap[sessions[j]].name

(***************************************************************************)
(* Start-up.  The gateway holds the stored sessions; windows are open      *)
(* when initialiseSpaces runs.  The store of the model keeps the id and    *)
(* the name of a record; the tabs and the window id a record was saved     *)
(* with are given by tabsOf and windowOf.                                  *)
(***************************************************************************)
\* what fetchAllSessions returns: the stored records in the order of their ids
RECURSIVE FetchAllSessions(_, _, _)
FetchAllSessions(i, tabsOf, windowOf) ==
    IF i > MaxId THEN <<>>
    ELSE (IF store[i].present
          THEN <<[id |-> i, windowId |-> windowOf[i], name |-> store[i].name,
                  tabs |-> tabsOf[i],
                  sessionHash |-> GenerateSessionHash(tabsOf[i]),
                  history |-> <<>>]>>
          ELSE <<>>) \o FetchAllSessions(i + 1, tabsOf, windowOf)

\* windows.forEach of initialiseSpaces, from window w on
RECURSIVE MatchWindows(_, _)
MatchWindows(st, w) ==
    IF w > MaxWin THEN st
    ELSE MatchWindows(
             IF /\ winState[w] = "open"
                /\ ~FilterInternalWindows(TabUrls(winTabs[w]))
             THEN CheckForSessionMatch(st, w, TabUrls(winTabs[w]))
             ELSE st,
             w + 1)

\* the callback of chrome.windows.getAll in initialiseSpaces, the window id
\* of every fetched session left as it was stored
LoadSessionsKeepWindowIds(stored) ==
    MatchWindows([Service EXCEPT
                     !.heap = [o \in Oids |-> IF o <= Len(stored) THEN stored[o]
                                              ELSE Blank],
                     !.sessions = [o \in 1..Len(stored) |-> o]],
                 1)

\* the callback of chrome.windows.getAll in initialiseSpaces: the fetched
\* sessions become the registry, their window ids are cleared, and every
\* open window that is not internal is matched
LoadSessions(stored) ==
    MatchWindows([Service EXCEPT
                     !.heap = [o \in Oids |->
                                  IF o <= Len(stored)
                                  THEN [stored[o] EXCEPT !.windowId = 0]
                                  ELSE Blank],
                     !.sessions = [o \in 1..Len(stored) |-> o]],
                 1)

InitialiseSpaces(tabsOf, windowOf) ==
    /\ sessions = <<>>
    /\ SetService(LoadSessions(FetchAllSessions(1, tabsOf, windowOf)))
    /\ UNCHANGED <<closedWindowIds, sessionUpdateTimers, pendingGets, store, nextId,
                   pendingLoads, tabHistoryUrlMap>>
    /\ UNCHANGED hostVars
    /\ UNCHANGED queueVars

\* nothing is in memory, the gateway holds the records 1..n
InitStart ==
    /\ winState = [w \in WinIds |-> "none"]
    /\ winTabs = [w \in WinIds |-> <<>>]
    /\ heap = [o \in Oids |-> Blank]
    /\ sessions = <<>>
    /\ closedWindowIds = {}
    /\ sessionUpdateTimers = [w \in WinIds |-> 0]
    /\ pendingGets = [w \in WinIds |-> 0]
    /\ historyQueue = <<>>
    /\ queue = <<>>
    /\ isProcessing = FALSE
    /\ running = {}
    /\ nextTicket = 1
    /\ started = <<>>
    /\ finished = [k \in 1..MaxTasks |-> "none"]
    /\ dbOps = <<>>
    /\ \E n \in 0..MaxId :
          /\ store = [i \in Ids |-> IF i <= n
                                    THEN [present |-> TRUE,
                                          name |-> IF i = 1 THEN "n1" ELSE "n2"]
                                    ELSE NoRec]
          /\ nextId = n + 1
    /\ pendingLoads = {}
    /\ tabHistoryUrlMap = [t \in TabIds |-> NoUrl]
    /\ aux = NoAux

NextStart ==
    \/ \E urls \in {<<UrlA>>, <<UrlB>>, <<RuntimeId>>, <<RuntimeId, UrlA>>} :
          HostOpenWindow(urls) /\ UNCHANGED aux
    \/ \E tabsOf \in [Ids -> {<<UrlA>>, <<UrlB>>}], windowOf \in [Ids -> {0, MaxWin}] :
          InitialiseSpaces(tabsOf, windowOf) /\ UNCHANGED aux

SpecStart == InitStart /\ [][NextStart]_vars

\* window w is open, is not internal and has a tab
Matchable(w) ==
    /\ winState[w] = "open"
    /\ Len(winTabs[w]) >= 1
    /\ ~FilterInternalWindows(TabUrls(winTabs[w]))

\* the registry h, regs after initialiseSpaces: a stored session is bound
\* only to a matchable window of its hash, every matchable window has
\* exactly one session, no session is bound to a window that is not open,
\* and of several stored sessions with the hash of the one window that has
\* this hash the first is bound to it and the others are unbound
Initialised(h, regs) ==
    /\ \A o \in Range(regs) :
          (h[o].id # 0 /\ h[o].windowId # 0)
          => /\ Matchable(h[o].windowId)
             /\ WindowHash(h[o].windowId) = h[o].sessionHash
    /\ \A w \in WinIds :
          Matchable(w) => Cardinality({o \in Range(regs) : h[o].windowId = w}) = 1
    /\ \A o \in Range(regs) :
          h[o].windowId # 0 => winState[h[o].windowId] = "open"
    /\ \A w \in WinIds :
          LET same == {i \in 1..Len(regs) : /\ h[regs[i]].id # 0
                                            /\ h[regs[i]].sessionHash = WindowHash(w)}
          IN  (/\ Matchable(w)
               /\ \A v \in WinIds \ {w} : Matchable(v) => WindowHash(v) # WindowHash(w)
               /\ Cardinality(same) >= 2)
              => \A i \in same :
                    h[regs[i]].windowId = IF \A j \in same : i <= j THEN w ELSE 0

\* C40: after initialiseSpaces the stored sessions are bound only to open
\* windows they match, every open window that is not internal and has a tab
\* has exactly one session, no session is bound to a window that is not
\* open, and of several stored sessions with the hash of a window only the
\* first in registry order is bound
C40_StartupBindsMatchedOnly ==
    [][(\E tabsOf \in [Ids -> {<<UrlA>>, <<UrlB>>}], windowOf \in [Ids -> {0, MaxWin}] :
            InitialiseSpaces(tabsOf, windowOf))
       => Initialised(heap', sessions')]_vars

\* two stored sessions have the hash of the one open window of that hash:
\* the first is bound to it and the second is unbound, while another open
\* window has a temporary session
C40_Witness ==
    \E w \in WinIds, v \in WinIds :
        /\ Matchable(w)
        /\ Matchable(v)
        /\ WindowHash(v) # WindowHash(w)
        /\ Len(sessions) = 3
        /\ heap[sessions[1]].id # 0
        /\ heap[sessions[2]].id # 0
        /\ heap[sessions[1]].windowId = w
        /\ heap[sessions[2]].windowId = 0
        /\ heap[sessions[2]].sessionHash = WindowHash(w)
        /\ heap[sessions[3]].id = 0
        /\ heap[sessions[3]].windowId = v
====
